---- MODULE Spec2Model ----
(***************************************************************************)
(* A model of any2any: the settings store (CastSettings), the registry     *)
(* mm_to_cast and the resolution of a cast for a metamorphosis             *)
(* (Cast.cast_for), and the choice of the cast of one item                 *)
(* (CastItems.cast_for_item).                                              *)
(*                                                                         *)
(* Python objects that the code mutates in place or shares by reference    *)
(* live in heaps: `metas` holds the per-setting dictionaries of every      *)
(* _schema, `confs` the CastSettings instances, `casts` the Cast           *)
(* instances.  A reference is an index in its heap.                        *)
(***************************************************************************)
EXTENDS Integers, Sequences, FiniteSets, TLC

VARIABLES confs, metas, mm_to_cast, casts, last, steps, classes, objs, stack, result

vars == <<confs, metas, mm_to_cast, casts, last, steps, classes, objs, stack, result>>

\* the state of a conversion: the containers in memory, the calls in
\* progress, and how the outermost call ended
conversion == <<objs, stack, result>>

NoResult ==
    [started |-> FALSE, done |-> FALSE, err |-> "none", value |-> [t |-> "NoneType"],
     keys |-> <<>>, at |-> <<>>, cast |-> 0, inpt |-> [t |-> "NoneType"]]

NoConversion == objs = <<>> /\ stack = <<>> /\ result = NoResult

\* the variables that the settings, resolution and items machines leave alone
others == <<classes, objs, stack, result>>

NoOthers == classes = <<>> /\ NoConversion

(***************************************************************************)
(* Bounds                                                                  *)
(***************************************************************************)
MaxConfs == 2
MaxSteps == 3
MaxCasts == 5

(***************************************************************************)
(* Python values.  Every value carries its type, dictionaries are          *)
(* functions.                                                              *)
(***************************************************************************)
None == [t |-> "NoneType"]

IntV(i) == [t |-> "int", i |-> i]

DictV(f) == [t |-> "dict", d |-> f]

StrV(s) == [t |-> "str", s |-> s]

BoolV(b) == [t |-> "bool", b |-> b]

\* a class or a set of classes, as the value of the settings from_ and to
TypeV(ts) == [t |-> "type", ts |-> ts]

\* a reference to a cast
CastV(id) == [t |-> "cast", id |-> id]

EmptyDict == [k \in {} |-> 0]

Put(f, k, v) == [x \in DOMAIN f \cup {k} |-> IF x = k THEN v ELSE f[x]]

Del(f, k) == [x \in DOMAIN f \ {k} |-> f[x]]

\* dict.update(other): the keys of both, other's value where both have one
DictUpdate(f, g) == [x \in DOMAIN f \cup DOMAIN g |-> IF x \in DOMAIN g THEN g[x] ELSE f[x]]

\* truth value of a Python value, as tested by `if new_value` and `new_value or ...`
Truthy(v) ==
    CASE v.t = "NoneType" -> FALSE
      [] v.t = "int" -> v.i # 0
      [] v.t = "dict" -> DOMAIN v.d # {}
      [] v.t = "str" -> v.s # ""
      [] v.t = "bool" -> v.b
      [] OTHER -> TRUE

Perms(S) == {s \in [1..Cardinality(S) -> S] : \A i, j \in 1..Cardinality(S) : s[i] = s[j] => i = j}

\* the elements of sequence s that are in set S, in the order of s
Only(s, S) == SelectSeq(s, LAMBDA n : n \in S)

\* the element of a set of one element: {e : x \in {v}} is e with the local
\* variable x assigned the value v
One(S) == CHOOSE x \in S : TRUE

(***************************************************************************)
(* CastSettings                                                            *)
(*                                                                         *)
(* One entry of a _schema is a dictionary with the optional keys 'type',   *)
(* 'override' and 'customize'; Absent marks a key that is not there.       *)
(* A CastSettings is [_schema : name -> index in metas,                    *)
(*                    _values : name -> value].                            *)
(* Every method takes the store st = [confs, metas] and gives              *)
(* [st, err]: the store it leaves and the exception it raised ("none" when *)
(* it returned).                                                           *)
(***************************************************************************)
Absent == "absent"

EmptyMeta == [type |-> Absent, override |-> Absent, customize |-> Absent]

\* dict.update on a schema entry
MetaUpdate(old, new) == [k \in DOMAIN old |-> IF new[k] # Absent THEN new[k] ELSE old[k]]

Ok(st) == [st |-> st, err |-> "none"]

Fail(st, e) == [st |-> st, err |-> e]

contains(st, c, name) == name \in DOMAIN st.confs[c]._schema

getitem(st, c, name) ==
    IF name \in DOMAIN st.confs[c]._values
    THEN [err |-> "none", value |-> st.confs[c]._values[name]]
    ELSE [err |-> "KeyError", value |-> None]

\* Mapping.get(name, default)
get(st, c, name, default) ==
    IF getitem(st, c, name).err = "none" THEN getitem(st, c, name).value ELSE default

\* setitem without the test `name in self`
setitem_undeclared(st, c, name, value) ==
    LET declared == contains(st, c, name)
        type_check == IF declared THEN st.metas[st.confs[c]._schema[name]].type ELSE Absent
    IN  IF type_check # Absent /\ value.t # type_check
        THEN Fail(st, "TypeError")
        ELSE Ok([st EXCEPT !.confs[c]._values = Put(@, name, value)])

\* setitem raising KeyError, as getitem does, for a name that is not declared
setitem_keyerror(st, c, name, value) ==
    IF contains(st, c, name)
    THEN LET type_check == st.metas[st.confs[c]._schema[name]].type
         IN  IF type_check # Absent /\ value.t # type_check
             THEN Fail(st, "TypeError")
             ELSE Ok([st EXCEPT !.confs[c]._values = Put(@, name, value)])
    ELSE Fail(st, "KeyError")

setitem(st, c, name, value) ==
    IF contains(st, c, name)
    THEN LET type_check == st.metas[st.confs[c]._schema[name]].type
         IN  IF type_check # Absent /\ value.t # type_check
             THEN Fail(st, "TypeError")
             ELSE Ok([st EXCEPT !.confs[c]._values = Put(@, name, value)])
    ELSE Fail(st, "TypeError")

delitem(st, c, name) ==
    IF name \notin DOMAIN st.confs[c]._values
    THEN Fail(st, "KeyError")
    ELSE LET st1 == [st EXCEPT !.confs[c]._values = Del(@, name)]
         IN  IF name \notin DOMAIN st.confs[c]._schema
             THEN Fail(st1, "KeyError")
             ELSE Ok([st1 EXCEPT !.confs[c]._schema = Del(@, name)])

\* copy_and_update with the update done the other way round
copy_and_update_old_wins(st, c, name, value) ==
    LET new_value == get(st, c, name, None)
    IN  IF Truthy(new_value)
        THEN IF new_value.t # "dict"
             THEN Fail(st, "AttributeError")
             ELSE IF value.t # "dict"
                  THEN Fail(st, "TypeError")
                  ELSE setitem(st, c, name, DictV(DictUpdate(value.d, new_value.d)))
        ELSE setitem(st, c, name, value)

copy_and_update(st, c, name, value) ==
    LET new_value == get(st, c, name, None)
    IN  IF Truthy(new_value)
        THEN IF new_value.t # "dict"
             THEN Fail(st, "AttributeError")
             ELSE IF value.t # "dict"
                  THEN Fail(st, "TypeError")
                  ELSE setitem(st, c, name, DictV(DictUpdate(new_value.d, value.d)))
        ELSE setitem(st, c, name, value)

do_nothing(st, c, name, value) == Ok(st)

\* getattr(self, meth)(name, value)
call_meth(st, c, meth, name, value) ==
    CASE meth = "__setitem__" -> setitem(st, c, name, value)
      [] meth = "copy_and_update" -> copy_and_update(st, c, name, value)
      [] meth = "do_nothing" -> do_nothing(st, c, name, value)

\* MutableMapping.update(settings): self[name] = value for every item, in
\* the order `names`
RECURSIVE update(_, _, _, _)
update(st, c, settings, names) ==
    IF names = <<>> THEN Ok(st)
    ELSE One({IF r.err # "none" THEN r ELSE update(r.st, c, settings, Tail(names)) :
                  r \in {setitem(st, c, Head(names), settings[Head(names)])}})

\* CastSettings(_schema = _schema, **settings), where _schema maps names to
\* entries already in metas.  The dictionary made by dict.fromkeys is one
\* object shared by every name of settings that _schema does not give.
init(st, _schema, settings, names) ==
    LET fresh == DOMAIN settings \ DOMAIN _schema
        metas1 == IF fresh # {} THEN Append(st.metas, EmptyMeta) ELSE st.metas
        self == [_schema |-> [n \in DOMAIN settings \cup DOMAIN _schema |->
                                 IF n \in DOMAIN _schema THEN _schema[n] ELSE Len(metas1)],
                 _values |-> EmptyDict]
    IN  One({IF r.err # "none"
             THEN [st |-> st, err |-> r.err, id |-> 0]
             ELSE [st |-> r.st, err |-> "none", id |-> Len(st.confs) + 1] :
                 r \in {update([st EXCEPT !.confs = Append(@, self), !.metas = metas1],
                               Len(st.confs) + 1, settings, Only(names, DOMAIN settings))}})

\* copy.copy(settings): the schema dictionary is copied, its entries and the
\* values are shared
copy(st, c, names) == init(st, st.confs[c]._schema, st.confs[c]._values, names)

\* first loop of override: the schema of settings j is merged into self's
RECURSIVE override_schema(_, _, _, _)
override_schema(st, c, j, names) ==
    IF names = <<>> THEN st
    ELSE LET name == Head(names)
             value == st.metas[st.confs[j]._schema[name]]
         IN  One({override_schema(st1, c, j, Tail(names)) :
                      st1 \in {IF name \in DOMAIN st.confs[c]._schema
                               THEN [st EXCEPT !.metas[st.confs[c]._schema[name]] =
                                                   MetaUpdate(@, value)]
                               ELSE [st EXCEPT !.metas = Append(@, value),
                                               !.confs[c]._schema =
                                                   Put(@, name, Len(st.metas) + 1)]}})

\* second loop of override
RECURSIVE override_values(_, _, _, _)
override_values(st, c, items, names) ==
    IF names = <<>> THEN Ok(st)
    ELSE LET name == Head(names)
         IN  IF name \notin DOMAIN st.confs[c]._schema
             THEN Fail(st, "KeyError")
             ELSE LET o == st.metas[st.confs[c]._schema[name]].override
                      meth == IF o = Absent THEN "__setitem__" ELSE o
                  IN  One({IF r.err # "none" THEN r
                           ELSE override_values(r.st, c, items, Tail(names)) :
                               r \in {call_meth(st, c, meth, name, items[name])}})

\* A source of settings is another CastSettings, [kind |-> "settings", id],
\* or a plain dict, [kind |-> "dict", d].  copy.copy(settings).items():
IsSettings(src) == src.kind = "settings"

copy_items(st, src, names) ==
    IF IsSettings(src)
    THEN [err |-> copy(st, src.id, names).err, items |-> st.confs[src.id]._values]
    ELSE [err |-> "none", items |-> src.d]

override(st, c, src, names) ==
    One({One({IF cp.err # "none" THEN Fail(st1, cp.err)
              ELSE override_values(st1, c, cp.items, Only(names, DOMAIN cp.items)) :
                  cp \in {copy_items(st1, src, names)}}) :
             st1 \in {IF IsSettings(src)
                      THEN override_schema(st, c, src.id,
                                           Only(names, DOMAIN st.confs[src.id]._schema))
                      ELSE st}})

\* customize reading the 'override' key of the schema
RECURSIVE customize_values_override_key(_, _, _, _)
customize_values_override_key(st, c, items, names) ==
    IF names = <<>> THEN Ok(st)
    ELSE LET name == Head(names)
         IN  IF name \notin DOMAIN st.confs[c]._schema
             THEN customize_values_override_key(st, c, items, Tail(names))
             ELSE LET m == st.metas[st.confs[c]._schema[name]].override
                      meth == IF m = Absent THEN "__setitem__" ELSE m
                  IN  One({IF r.err # "none" THEN r
                           ELSE customize_values_override_key(r.st, c, items, Tail(names)) :
                               r \in {call_meth(st, c, meth, name, items[name])}})

RECURSIVE customize_values(_, _, _, _)
customize_values(st, c, items, names) ==
    IF names = <<>> THEN Ok(st)
    ELSE LET name == Head(names)
         IN  IF name \notin DOMAIN st.confs[c]._schema
             THEN customize_values(st, c, items, Tail(names))
             ELSE LET m == st.metas[st.confs[c]._schema[name]].customize
                      meth == IF m = Absent THEN "__setitem__" ELSE m
                  IN  One({IF r.err # "none" THEN r
                           ELSE customize_values(r.st, c, items, Tail(names)) :
                               r \in {call_meth(st, c, meth, name, items[name])}})

customize(st, c, src, names) ==
    One({IF cp.err # "none" THEN Fail(st, cp.err)
         ELSE customize_values(st, c, cp.items, Only(names, DOMAIN cp.items)) :
             cp \in {copy_items(st, src, names)}})

\* an empty dict, and a schema entry written as a literal
D0 == DictV(EmptyDict)

Meta(t, o, c) == [type |-> t, override |-> o, customize |-> c]

\* the entries of a literal _schema argument become objects of the heap
RECURSIVE alloc_schema(_, _, _)
alloc_schema(st, _schema, names) ==
    IF names = <<>> THEN [st |-> st, ids |-> EmptyDict]
    ELSE One({[st |-> r.st, ids |-> Put(r.ids, Head(names), Len(st.metas) + 1)] :
                  r \in {alloc_schema([st EXCEPT !.metas = Append(@, _schema[Head(names)])],
                                      _schema, Tail(names))}})

(***************************************************************************)
(* Metamorphoses (utils.Mm).  A side of a metamorphosis is one class       *)
(* (Exact), a class and its subclasses (SubclassOf) or any type.           *)
(***************************************************************************)
Types ==
    {"object", "Dumb", "int", "DumbInt", "str", "list", "dict", "NoneType", "Author", "Book"}

\* the bases of each class: class DumbInt(Dumb, int)
Bases == [c \in Types |->
             CASE c = "object" -> {}
               [] c = "Dumb" -> {"object"}
               [] c = "int" -> {"object"}
               [] c = "DumbInt" -> {"Dumb", "int"}
               [] OTHER -> {"object"}]

RECURSIVE IsSubclass(_, _)
IsSubclass(c, d) == c = d \/ \E b \in Bases[c] : IsSubclass(b, d)

Exact(c) == [kind |-> "Exact", type |-> c]

SubclassOf(c) == [kind |-> "SubclassOf", type |-> c]

AnyType == [kind |-> "Any", type |-> "object"]

Mm(from_, to) == [from_ |-> from_, to |-> to]

\* every type that q matches is matched by p
Covers(p, q) ==
    CASE p.kind = "Any" -> TRUE
      [] p.kind = "SubclassOf" -> q.kind # "Any" /\ IsSubclass(q.type, p.type)
      [] p.kind = "Exact" -> q = p

MoreSpecific(p, q) == p # q /\ Covers(q, p)

\* candidate m can serve the request mm
MmMatches(m, mm) == Covers(m.from_, mm.from_) /\ Covers(m.to, mm.to)

\* the source side is compared first, then the destination side
Closer(a, b) ==
    \/ MoreSpecific(a.from_, b.from_)
    \/ a.from_ = b.from_ /\ MoreSpecific(a.to, b.to)

pick_closest_in(mm, choices) ==
    LET matching == {m \in choices : MmMatches(m, mm)}
        closest == {a \in matching : \A b \in matching \ {a} : Closer(a, b)}
    IN  IF matching = {} THEN [err |-> "NoConverterFoundError", mm |-> mm]
        ELSE IF closest = {} THEN [err |-> "AmbiguousConversionError", mm |-> mm]
        ELSE [err |-> "none", mm |-> CHOOSE a \in closest : TRUE]

(***************************************************************************)
(* Cast classes and instances                                              *)
(*                                                                         *)
(* A cast is [cls, settings : index in confs, _depth, _context, by]; `by`  *)
(* is history: the cast whose cast_for built this one, 0 for a cast built  *)
(* by a constructor call.  The methods work on a world                     *)
(* w = [confs, metas, casts].                                              *)
(***************************************************************************)
CastNameOrder ==
    <<"mm_to_cast", "from_", "to", "logs", "msg", "key_to_cast", "value_cast", "key_cast",
      "index_to_cast", "index_to_mm", "element_cast">>

EmptyWorld == [confs |-> <<>>, metas |-> <<>>, casts |-> <<>>]

Reversed(s) == [i \in 1..Len(s) |-> s[Len(s) + 1 - i]]

\* for base in bases: defaults.override(base.defaults), `ids` being the
\* defaults of the bases
RECURSIVE override_all(_, _, _, _)
override_all(w, c, ids, names) ==
    IF ids = <<>> THEN Ok(w)
    ELSE One({IF r.err # "none" THEN r ELSE override_all(r.st, c, Tail(ids), names) :
                  r \in {override(w, c, [kind |-> "settings", id |-> Head(ids)], names)}})

\* class creation with the defaults of the parents applied in the order of
\* the class statement
CastType_new_listed_order(w, bases, new_defaults, names) ==
    IF bases # <<>>
    THEN One({One({IF r1.err # "none" THEN [st |-> w, id |-> 0, err |-> r1.err]
                   ELSE One({[st |-> IF r2.err = "none" THEN r2.st ELSE w,
                              id |-> IF r2.err = "none" THEN d.id ELSE 0,
                              err |-> r2.err] :
                                r2 \in {override(r1.st, d.id,
                                                 [kind |-> "settings", id |-> new_defaults],
                                                 names)}}) :
                       r1 \in {override_all(d.st, d.id, bases, names)}}) :
                  d \in {init(w, EmptyDict, EmptyDict, names)}})
    ELSE [st |-> w, id |-> new_defaults, err |-> "none"]

\* CastType.__new__: the defaults of a new class whose cast bases have the
\* defaults `bases` (first listed first) and whose body gives new_defaults.
\* A class statement that raises leaves no class behind.
CastType_new(w, bases, new_defaults, names) ==
    IF bases # <<>>
    THEN One({One({IF r1.err # "none" THEN [st |-> w, id |-> 0, err |-> r1.err]
                   ELSE One({[st |-> IF r2.err = "none" THEN r2.st ELSE w,
                              id |-> IF r2.err = "none" THEN d.id ELSE 0,
                              err |-> r2.err] :
                                r2 \in {override(r1.st, d.id,
                                                 [kind |-> "settings", id |-> new_defaults],
                                                 names)}}) :
                       r1 \in {override_all(d.st, d.id, Reversed(bases), names)}}) :
                  d \in {init(w, EmptyDict, EmptyDict, names)}})
    ELSE [st |-> w, id |-> new_defaults, err |-> "none"]

\* class Cast: defaults = CastSettings(mm_to_cast = {}, from_ = None, ...)
CastClass ==
    One({One({CastType_new(nd.st, <<>>, nd.id, CastNameOrder) :
                  nd \in {init(a.st, a.ids,
                               ("mm_to_cast" :> D0) @@ ("from_" :> None) @@ ("to" :> None)
                                   @@ ("logs" :> BoolV(TRUE)), CastNameOrder)}}) :
             a \in {alloc_schema(EmptyWorld,
                                 "mm_to_cast" :> Meta(Absent, "copy_and_update", Absent),
                                 <<"mm_to_cast">>)}})

\* class Identity(Cast), without defaults of its own
IdentityClass ==
    One({One({CastType_new(nd.st, <<base.id>>, nd.id, CastNameOrder) :
                  nd \in {init(base.st, EmptyDict, EmptyDict, CastNameOrder)}}) :
             base \in {CastClass}})

\* class MyCast(Cast): defaults = CastSettings(msg = '')
MyCastClass ==
    One({One({CastType_new(nd.st, <<CastClass.id>>, nd.id, CastNameOrder) :
                  nd \in {init(prev.st, EmptyDict, "msg" :> StrV(""), CastNameOrder)}}) :
             prev \in {IdentityClass}})

\* a divide and conquer cast with the settings of CastItems
ItemsCastClass ==
    One({One({CastType_new(nd.st, <<CastClass.id>>, nd.id, CastNameOrder) :
                  nd \in {init(prev.st, EmptyDict,
                               ("key_to_cast" :> D0) @@ ("value_cast" :> None)
                                   @@ ("key_cast" :> None), CastNameOrder)}}) :
             prev \in {MyCastClass}})

\* the world once the classes are defined
Classes == ItemsCastClass.st

\* the divide and conquer casts: CastItems with a mixin for the input and a
\* mixin for the output, and one that overrides strip_item
\* (class ...(FromIterable, CastItems, ToIterable, DivideAndConquerCast))
IterableToIterableClass ==
    One({CastType_new(nd.st, <<ItemsCastClass.id>>, nd.id, CastNameOrder) :
             nd \in {init(Classes, EmptyDict, EmptyDict, CastNameOrder)}})

MappingToMappingClass ==
    One({CastType_new(nd.st, <<ItemsCastClass.id>>, nd.id, CastNameOrder) :
             nd \in {init(IterableToIterableClass.st, EmptyDict, EmptyDict, CastNameOrder)}})

IterableToMappingClass ==
    One({CastType_new(nd.st, <<ItemsCastClass.id>>, nd.id, CastNameOrder) :
             nd \in {init(MappingToMappingClass.st, EmptyDict, EmptyDict, CastNameOrder)}})

StripNoneClass ==
    One({CastType_new(nd.st, <<IterableToIterableClass.id>>, nd.id, CastNameOrder) :
             nd \in {init(IterableToMappingClass.st, EmptyDict, EmptyDict, CastNameOrder)}})

DivideClasses == StripNoneClass.st

\* a cast of lists made of containercast.ContainerCast, FromListMixin,
\* ToListMixin and GuessMmMixin
ListToListClass ==
    One({CastType_new(nd.st, <<CastClass.id>>, nd.id, CastNameOrder) :
             nd \in {init(DivideClasses, EmptyDict,
                          ("index_to_cast" :> D0) @@ ("index_to_mm" :> D0)
                              @@ ("element_cast" :> None), CastNameOrder)}})

ContainerClasses == ListToListClass.st

\* the casts of objects:
\* class ObjectToMapping(FromObject, CastItems, ToMapping, DivideAndConquerCast)
\* and class MappingToObject(FromMapping, CastItems, ToObject, ...)
ObjectToMappingClass ==
    One({CastType_new(nd.st, <<ItemsCastClass.id>>, nd.id, CastNameOrder) :
             nd \in {init(ContainerClasses, EmptyDict, EmptyDict, CastNameOrder)}})

MappingToObjectClass ==
    One({CastType_new(nd.st, <<ItemsCastClass.id>>, nd.id, CastNameOrder) :
             nd \in {init(ObjectToMappingClass.st, EmptyDict, EmptyDict, CastNameOrder)}})

ObjectClasses == MappingToObjectClass.st

\* cls.defaults
defaults ==
    ("Cast" :> CastClass.id) @@ ("Identity" :> IdentityClass.id)
        @@ ("MyCast" :> MyCastClass.id) @@ ("ItemsCast" :> ItemsCastClass.id)
        @@ ("IterableToIterable" :> IterableToIterableClass.id)
        @@ ("MappingToMapping" :> MappingToMappingClass.id)
        @@ ("IterableToMapping" :> IterableToMappingClass.id)
        @@ ("StripNone" :> StripNoneClass.id)
        @@ ("ListToList" :> ListToListClass.id)
        @@ ("ObjectToMapping" :> ObjectToMappingClass.id)
        @@ ("MappingToObject" :> MappingToObjectClass.id)

\* cls(**settings): Cast.__new__ then Cast.__init__
Cast_new(w, cls, settings, names) ==
    One({IF cp.err # "none" THEN [st |-> w, err |-> cp.err, id |-> 0]
         ELSE One({IF up.err # "none" THEN [st |-> w, err |-> up.err, id |-> 0]
                   ELSE [st |-> [up.st EXCEPT !.casts =
                                     Append(@, [cls |-> cls, settings |-> cp.id, _depth |-> 0,
                                                _context |-> None, by |-> 0])],
                         err |-> "none", id |-> Len(w.casts) + 1] :
                       up \in {update(cp.st, cp.id, settings, Only(names, DOMAIN settings))}}) :
             cp \in {copy(w, defaults[cls], names)}})

settings_of(w, cast) == w.confs[w.casts[cast].settings]._values

\* copy.copy(cast)
Cast_copy_(w, cast, names) ==
    IF copy(w, w.casts[cast].settings, names).err # "none"
    THEN [st |-> w, err |-> copy(w, w.casts[cast].settings, names).err, id |-> 0]
    ELSE Cast_new(w, w.casts[cast].cls, settings_of(w, cast), names)

\* a copy that is the cast itself, with settings written into its own
Cast_copy_in_place(w, cast, settings, names) ==
    One({IF up.err # "none" THEN [st |-> w, err |-> up.err, id |-> 0]
         ELSE [st |-> up.st, err |-> "none", id |-> cast] :
             up \in {update(w, w.casts[cast].settings, settings, Only(names, DOMAIN settings))}})

\* cast.copy(settings)
Cast_copy(w, cast, settings, names) ==
    One({IF new_cast.err # "none" THEN new_cast
         ELSE One({IF up.err # "none" THEN [st |-> w, err |-> up.err, id |-> 0]
                   ELSE [st |-> up.st, err |-> "none", id |-> new_cast.id] :
                       up \in {update(new_cast.st, new_cast.st.casts[new_cast.id].settings,
                                      settings, Only(names, DOMAIN settings))}}) :
             new_cast \in {Cast_copy_(w, cast, names)}})

\* a resolution where the global map is written over the local one
choices_of_global_wins(reg, local) == DictUpdate(local, reg)

\* the candidates of a resolution: the global map updated with the local one
choices_of(reg, local) == DictUpdate(reg, local)

NoCast ==
    [w |-> EmptyWorld, err |-> "none", new |-> 0, cast |-> 0,
     closest |-> Mm(AnyType, AnyType), named |-> Mm(AnyType, AnyType)]

\* the last lines of cast_for, which CastItems calls as build_customized:
\* cast is copied for mm and customized with the settings of self
build_customized(w, self, cast, mm, names) ==
    One({IF new_cast.err # "none"
         THEN [NoCast EXCEPT !.w = w, !.err = new_cast.err, !.cast = cast]
         ELSE One({IF cu.err # "none"
                   THEN [NoCast EXCEPT !.w = w, !.err = cu.err, !.cast = cast]
                   ELSE [NoCast EXCEPT !.w = cu.st, !.new = new_cast.id, !.cast = cast] :
                       cu \in {customize([new_cast.st EXCEPT
                                              !.casts[new_cast.id]._depth =
                                                  w.casts[cast]._depth + 1,
                                              !.casts[new_cast.id].by = self],
                                         new_cast.st.casts[new_cast.id].settings,
                                         [kind |-> "settings", id |-> w.casts[self].settings],
                                         names)}}) :
             new_cast \in {Cast_copy(w, cast, ("from_" :> TypeV(mm.from_))
                                                  @@ ("to" :> TypeV(mm.to)), names)}})

\* a resolution that takes the least specific of the matching candidates
cast_for_least_specific(w, reg, self, mm, names) ==
    LET choices == choices_of(reg, settings_of(w, self)["mm_to_cast"].d)
        matching == {m \in DOMAIN choices : MmMatches(m, mm)}
        least == CHOOSE a \in matching : \A b \in matching : ~Closer(a, b)
    IN  IF matching = {}
        THEN [NoCast EXCEPT !.w = w, !.err = "NoConverterFoundError", !.named = mm]
        ELSE [build_customized(w, self, choices[least], mm, names) EXCEPT !.closest = least]

\* a resolution that takes one of the candidates when none is the closest
cast_for_pick_one(w, reg, self, mm, names) ==
    LET choices == choices_of(reg, settings_of(w, self)["mm_to_cast"].d)
        matching == {m \in DOMAIN choices : MmMatches(m, mm)}
        closest_mm == pick_closest_in(mm, DOMAIN choices)
        one == CHOOSE a \in matching : \A b \in matching : ~Closer(b, a)
    IN  IF closest_mm.err = "NoConverterFoundError"
        THEN [NoCast EXCEPT !.w = w, !.err = closest_mm.err, !.named = closest_mm.mm]
        ELSE IF closest_mm.err = "AmbiguousConversionError"
        THEN [build_customized(w, self, choices[one], mm, names) EXCEPT !.closest = one]
        ELSE [build_customized(w, self, choices[closest_mm.mm], mm, names)
                 EXCEPT !.closest = closest_mm.mm]

\* a resolution that falls back on the resolving cast when nothing matches
cast_for_fallback(w, reg, self, mm, names) ==
    LET choices == choices_of(reg, settings_of(w, self)["mm_to_cast"].d)
        closest_mm == pick_closest_in(mm, DOMAIN choices)
    IN  IF closest_mm.err = "NoConverterFoundError"
        THEN build_customized(w, self, self, mm, names)
        ELSE IF closest_mm.err # "none"
        THEN [NoCast EXCEPT !.w = w, !.err = closest_mm.err, !.named = closest_mm.mm]
        ELSE [build_customized(w, self, choices[closest_mm.mm], mm, names)
                 EXCEPT !.closest = closest_mm.mm]

\* Cast.cast_for
cast_for(w, reg, self, mm, names) ==
    LET choices == choices_of(reg, settings_of(w, self)["mm_to_cast"].d)
        closest_mm == pick_closest_in(mm, DOMAIN choices)
    IN  IF closest_mm.err # "none"
        THEN [NoCast EXCEPT !.w = w, !.err = closest_mm.err, !.named = closest_mm.mm]
        ELSE [build_customized(w, self, choices[closest_mm.mm], mm, names)
                 EXCEPT !.closest = closest_mm.mm]

(***************************************************************************)
(* Items of a divide and conquer cast (daccasts.CastItems).  A value is    *)
(* modelled by its type.                                                   *)
(***************************************************************************)
\* DivideAndConquerCast.get_item_from / get_item_to
NotImplemented == [t |-> "NotImplementedType"]

get_item_from(key) == NotImplemented

get_item_to(key) == NotImplemented

\* a metamorphosis that always takes the type of the value as its source
item_mm_type_of_value(from_, to, value) ==
    IF to = NotImplemented THEN Mm(Exact(value), SubclassOf("object"))
    ELSE Mm(Exact(value), to)

\* the body of CastItems.get_item_mm, from_ and to being what get_item_from
\* and get_item_to return for the key and value the type of the value:
\* Mm(from_ = from_, to_any = object), or Mm(from_, to)
item_mm(from_, to, value) ==
    LET source == IF from_ = NotImplemented THEN Exact(value) ELSE from_
    IN  IF to = NotImplemented THEN Mm(source, SubclassOf("object"))
        ELSE Mm(source, to)

\* CastItems.get_item_mm
get_item_mm(key, value) == item_mm(get_item_from(key), get_item_to(key), value)

\* a lookup where the cast of all values comes before the cast of the key
cast_for_item_value_first(w, reg, self, key, value, names) ==
    LET mm == get_item_mm(key, value)
        key_to_cast == settings_of(w, self)["key_to_cast"].d
        value_cast == settings_of(w, self)["value_cast"]
    IN  IF Truthy(value_cast) THEN build_customized(w, self, value_cast.id, mm, names)
        ELSE IF key \in DOMAIN key_to_cast
        THEN build_customized(w, self, key_to_cast[key], mm, names)
        ELSE cast_for(w, reg, self, mm, names)

\* CastItems.cast_for_item
cast_for_item(w, reg, self, key, value, names) ==
    LET mm == get_item_mm(key, value)
        key_to_cast == settings_of(w, self)["key_to_cast"].d
        value_cast == settings_of(w, self)["value_cast"]
    IN  IF key \in DOMAIN key_to_cast
        THEN build_customized(w, self, key_to_cast[key], mm, names)
        ELSE IF Truthy(value_cast) THEN build_customized(w, self, value_cast.id, mm, names)
        ELSE cast_for(w, reg, self, mm, names)

\* ContainerCast.cast_for_item with an element_cast that is copied for the
\* item
ContainerCast_cast_for_item_copied(w, reg, self, index, value, names) ==
    LET index_to_cast == settings_of(w, self)["index_to_cast"].d
        element_cast == settings_of(w, self)["element_cast"]
    IN  IF index \in DOMAIN index_to_cast
        THEN [NoCast EXCEPT !.w = w, !.err = "TypeError", !.cast = index_to_cast[index]]
        ELSE IF Truthy(element_cast)
        THEN build_customized(w, self, element_cast.id, get_item_mm(index, value), names)
        ELSE [NoCast EXCEPT !.w = w, !.err = "TypeError"]

\* ContainerCast.cast_for_item: the cast of index_to_cast is copied with
\* cast.copy({}, self) and the resolved one is asked for with
\* self.cast_for(mm, {}), calls with one argument more than Cast.copy and
\* Cast.cast_for take; element_cast is returned as it is
ContainerCast_cast_for_item(w, reg, self, index, value, names) ==
    LET index_to_cast == settings_of(w, self)["index_to_cast"].d
        element_cast == settings_of(w, self)["element_cast"]
    IN  IF index \in DOMAIN index_to_cast
        THEN [NoCast EXCEPT !.w = w, !.err = "TypeError", !.cast = index_to_cast[index]]
        ELSE IF Truthy(element_cast)
        THEN [NoCast EXCEPT !.w = w, !.new = element_cast.id, !.cast = element_cast.id]
        ELSE [NoCast EXCEPT !.w = w, !.err = "TypeError"]

(***************************************************************************)
(* The settings machine: CastSettings are built, copied, read, written,    *)
(* overridden and customized.  `last` records the last operation, its      *)
(* arguments and the exception it raised; `steps` counts the operations.   *)
(***************************************************************************)
Names == {"x", "y"}

NameOrder == <<"x", "y">>

Da1 == DictV("a" :> 1)

Db2 == DictV("b" :> 2)

Dab == DictV(("a" :> 2) @@ ("b" :> 2))

\* the arguments of the constructor: the docstring's examples, and a typed
\* empty container beside a setting declared without a value
ConstructInputs ==
    { [_schema |-> EmptyDict, settings |-> ("x" :> Da1) @@ ("y" :> IntV(1))],
      [_schema |-> ("x" :> Meta(Absent, "copy_and_update", Absent)), settings |-> ("x" :> Da1)],
      [_schema |-> ("x" :> Meta(Absent, Absent, "copy_and_update")), settings |-> ("x" :> Da1)],
      [_schema |-> ("x" :> Meta("dict", "copy_and_update", "do_nothing")) @@ ("y" :> EmptyMeta),
       settings |-> ("x" :> D0)] }

ValueInputs == {IntV(1), Db2}

DictInputs ==
    { ("x" :> Db2), ("x" :> Dab), ("y" :> IntV(1)), ("x" :> D0) @@ ("y" :> Da1) }

Store == [confs |-> confs, metas |-> metas]

Commit(st) == confs' = st.confs /\ metas' = st.metas

Tick == steps < MaxSteps /\ steps' = steps + 1

Idle == UNCHANGED <<mm_to_cast, casts, others>>

Construct(inp) ==
    /\ Tick /\ Idle
    /\ Len(confs) < MaxConfs
    /\ LET a == alloc_schema(Store, inp._schema, Only(NameOrder, DOMAIN inp._schema))
           r == init(a.st, a.ids, inp.settings, NameOrder)
       IN  /\ Commit(IF r.err = "none" THEN r.st ELSE Store)
           /\ last' = [op |-> "init", c |-> r.id, err |-> r.err]

Copy(c) ==
    /\ Tick /\ Idle
    /\ Len(confs) < MaxConfs
    /\ LET r == copy(Store, c, NameOrder)
       IN  /\ Commit(r.st)
           /\ last' = [op |-> "copy", c |-> c, new |-> r.id, err |-> r.err]

GetItem(c, name) ==
    /\ Tick /\ Idle
    /\ UNCHANGED <<confs, metas>>
    /\ last' = [op |-> "getitem", c |-> c, name |-> name,
                value |-> getitem(Store, c, name).value, err |-> getitem(Store, c, name).err]

SetItem(c, name, value) ==
    /\ Tick /\ Idle
    /\ LET r == setitem(Store, c, name, value)
       IN  /\ Commit(r.st)
           /\ last' = [op |-> "setitem", c |-> c, name |-> name, value |-> value, err |-> r.err]

DelItem(c, name) ==
    /\ Tick /\ Idle
    /\ LET r == delitem(Store, c, name)
       IN  /\ Commit(r.st)
           /\ last' = [op |-> "delitem", c |-> c, name |-> name, err |-> r.err]

Override(c, src, names) ==
    /\ Tick /\ Idle
    /\ LET r == override(Store, c, src, names)
       IN  /\ Commit(r.st)
           /\ last' = [op |-> "override", c |-> c, src |-> src, err |-> r.err]

Customize(c, src, names) ==
    /\ Tick /\ Idle
    /\ LET r == customize(Store, c, src, names)
       IN  /\ Commit(r.st)
           /\ last' = [op |-> "customize", c |-> c, src |-> src, err |-> r.err]

Sources == {[kind |-> "settings", id |-> j] : j \in 1..Len(confs)}
               \cup {[kind |-> "dict", d |-> d] : d \in DictInputs}

\* The order in which a dict is iterated is not specified: every order of
\* the names is possible.  (__init__ and __copy__ leave nothing behind when
\* they raise, so that their order shows nowhere.)
Orders(src) ==
    LET n == IF IsSettings(src) THEN DOMAIN confs[src.id]._schema ELSE DOMAIN src.d
    IN  IF Cardinality(n) < 2 THEN {NameOrder} ELSE Perms(Names)

InitSettings ==
    /\ confs = <<>>
    /\ metas = <<>>
    /\ mm_to_cast = EmptyDict
    /\ casts = <<>>
    /\ last = [op |-> "none", err |-> "none"]
    /\ steps = 0
    /\ NoOthers

NextSettings ==
    \/ \E inp \in ConstructInputs : Construct(inp)
    \/ \E c \in 1..Len(confs) : Copy(c)
    \/ \E c \in 1..Len(confs), name \in Names : GetItem(c, name)
    \/ \E c \in 1..Len(confs), name \in Names, value \in ValueInputs : SetItem(c, name, value)
    \/ \E c \in 1..Len(confs), name \in Names : DelItem(c, name)
    \/ \E c \in 1..Len(confs), src \in Sources : \E names \in Orders(src) : Override(c, src, names)
    \/ \E c \in 1..Len(confs), src \in Sources : \E names \in Orders(src) : Customize(c, src, names)

SpecSettings == InitSettings /\ [][NextSettings]_vars

(***************************************************************************)
(* Properties of the settings machine                                      *)
(***************************************************************************)
ConfIds == 1..Len(confs)

\* the schema entry of name n in settings c, after the step
EntryAfter(c, n) == metas'[confs'[c]._schema[n]]

\* the items that the step's override or customize iterates on
ItemsOf(src) == IF IsSettings(src) THEN confs[src.id]._values ELSE src.d

IsMerge(op) == last'.op = op /\ last'.err = "none"

\* new is old and inc merged: the keys of both, inc's value on inc's keys
IsUnion(new, old, inc) ==
    /\ new.t = "dict"
    /\ DOMAIN new.d = DOMAIN old.d \cup DOMAIN inc.d
    /\ \A k \in DOMAIN new.d : new.d[k] = IF k \in DOMAIN inc.d THEN inc.d[k] ELSE old.d[k]

\* the value that name n has in settings c before the step, an empty
\* container when it has none
OldOf(c, n) == IF n \in DOMAIN confs[c]._values THEN confs[c]._values[n] ELSE D0

ValuesDeclared == \A c \in ConfIds : DOMAIN confs[c]._values \subseteq DOMAIN confs[c]._schema

UndeclaredSetFails ==
    (last'.op = "setitem" /\ ~contains(Store, last'.c, last'.name))
        => (last'.err # "none" /\ confs' = confs /\ metas' = metas)

\* C7: in every CastSettings, whatever operations built it, each name that
\* has a value is declared in the schema; and setting a name that is not
\* declared raises and leaves the values and the schema as they were.
C7_ValuesDeclared == []ValuesDeclared /\ [][UndeclaredSetFails]_vars

C7_Witness ==
    /\ last.op = "setitem" /\ last.err = "TypeError"
    /\ ~contains(Store, last.c, last.name)
    /\ DOMAIN confs[last.c]._values # {}

\* the operation that `last` records touched a name that is not declared:
\* a read or a write of it, or an override with a plain dict that holds it
UndeclaredAccess ==
    \/ last.op \in {"getitem", "setitem"} /\ ~contains(Store, last.c, last.name)
    \/ /\ last.op = "override" /\ ~IsSettings(last.src)
       /\ \E n \in DOMAIN last.src.d : ~contains(Store, last.c, n)

\* C8 as stated: every read and every write of a name that was never
\* declared fails with the one error kind UnknownSettingError.
C8_SameErrorKind == UndeclaredAccess => last.err = "UnknownSettingError"

\* C8 amended: a read of a name that is not declared raises KeyError, a
\* direct write of it raises TypeError, and an override with a plain dict
\* that holds it always raises, KeyError when it is the dict's only name.
C8_ErrorKinds ==
    /\ (last.op = "getitem" /\ ~contains(Store, last.c, last.name)) => last.err = "KeyError"
    /\ (last.op = "setitem" /\ ~contains(Store, last.c, last.name)) => last.err = "TypeError"
    /\ (last.op = "override" /\ UndeclaredAccess)
          => /\ last.err # "none"
             /\ Cardinality(DOMAIN last.src.d) = 1 => last.err = "KeyError"

C8_Witness ==
    /\ last.op = "override" /\ UndeclaredAccess
    /\ last.err = "KeyError"
    /\ \E n \in DOMAIN last.src.d : contains(Store, last.c, n)

\* C9: a merge with the default strategy leaves the incoming value; a merge
\* with copy_and_update leaves a dict whose keys are those of the old and
\* of the incoming value, with the incoming value on the incoming keys and
\* the old value on the others, also when the old value is empty.
C9_Step ==
    \A op \in {"override", "customize"} : \A n \in Names :
        (IsMerge(op) /\ n \in DOMAIN ItemsOf(last'.src) /\ contains(Store, last'.c, n))
        => LET strategy == EntryAfter(last'.c, n)[op]
               old == OldOf(last'.c, n)
               inc == ItemsOf(last'.src)[n]
               new == confs'[last'.c]._values[n]
           IN  /\ strategy \in {Absent, "__setitem__"} => new = inc
               /\ (strategy = "copy_and_update" /\ old.t = "dict" /\ inc.t = "dict")
                     => IsUnion(new, old, inc)

C9_MergeStrategies == [][C9_Step]_vars

C9_Witness ==
    /\ last.op = "override" /\ last.err = "none"
    /\ ~IsSettings(last.src) /\ last.src.d = ("x" :> Db2)
    /\ "x" \in DOMAIN confs[last.c]._values
    /\ metas[confs[last.c]._schema["x"]].override = "copy_and_update"
    /\ confs[last.c]._values["x"] = DictV(("a" :> 1) @@ ("b" :> 2))

\* C10: override combines with the 'override' strategy of the name and
\* customize with its 'customize' strategy: a name declared with
\* override = copy_and_update and no customize strategy is merged by
\* override and replaced by customize, and the other way round.
C10_Step ==
    \A n \in Names :
        LET c == last'.c
            old == OldOf(c, n)
            inc == ItemsOf(last'.src)[n]
            new == confs'[c]._values[n]
            dicts == n \in DOMAIN ItemsOf(last'.src) /\ contains(Store, c, n)
                        /\ old.t = "dict" /\ inc.t = "dict"
        IN  /\ (IsMerge("override") /\ dicts /\ EntryAfter(c, n).override = "copy_and_update")
                 => IsUnion(new, old, inc)
            /\ (IsMerge("customize") /\ dicts /\ EntryAfter(c, n).customize = Absent)
                 => new = inc
            /\ (IsMerge("customize") /\ dicts /\ EntryAfter(c, n).customize = "copy_and_update")
                 => IsUnion(new, old, inc)
            /\ (IsMerge("override") /\ dicts /\ EntryAfter(c, n).override = Absent)
                 => new = inc

C10_OwnStrategy == [][C10_Step]_vars

C10_Witness ==
    /\ last.op = "customize" /\ last.err = "none"
    /\ ~IsSettings(last.src) /\ last.src.d = ("x" :> Db2)
    /\ "x" \in DOMAIN confs[last.c]._values
    /\ metas[confs[last.c]._schema["x"]].override = "copy_and_update"
    /\ metas[confs[last.c]._schema["x"]].customize = Absent
    /\ confs[last.c]._values["x"] = Db2

\* what is seen of the setting n through the settings c: whether it is
\* declared, its value, and its schema entry (type, override, customize)
SeenThrough(c, n) ==
    [declared |-> n \in DOMAIN confs[c]._schema,
     value |-> IF n \in DOMAIN confs[c]._values THEN confs[c]._values[n] ELSE Absent,
     entry |-> IF n \in DOMAIN confs[c]._schema THEN metas[confs[c]._schema[n]] ELSE Absent]

\* the names that the last operation was given
NamedBy(l) ==
    IF l.op = "setitem" THEN {l.name}
    ELSE IF IsSettings(l.src)
    THEN DOMAIN confs[l.src.id]._schema \cup DOMAIN confs[l.src.id]._values
    ELSE DOMAIN l.src.d

SeenAfter(c, n) ==
    [declared |-> n \in DOMAIN confs'[c]._schema,
     value |-> IF n \in DOMAIN confs'[c]._values THEN confs'[c]._values[n] ELSE Absent,
     entry |-> IF n \in DOMAIN confs'[c]._schema THEN metas'[confs'[c]._schema[n]] ELSE Absent]

C12_Step ==
    last'.op \in {"setitem", "override", "customize"} =>
        /\ \A c \in ConfIds \ {last'.c} : \A n \in Names : SeenAfter(c, n) = SeenThrough(c, n)
        /\ \A n \in Names \ NamedBy(last') : SeenAfter(last'.c, n) = SeenThrough(last'.c, n)

\* C12: a set, an override or a customize of one settings object changes
\* neither the values nor the schema entries seen through any other settings
\* object (the one it was copied from, a copy of it), nor those of the names
\* of the same object that the operation was not given.
C12_CopyOnBranch == [][C12_Step]_vars

(***************************************************************************)
(* The resolution machine: casts are built, registered in the global map   *)
(* mm_to_cast, and asked for the cast of a metamorphosis.                  *)
(***************************************************************************)
MObject == Mm(SubclassOf("object"), SubclassOf("object"))

MDumb == Mm(SubclassOf("Dumb"), SubclassOf("object"))

MInt == Mm(SubclassOf("int"), SubclassOf("object"))

MAny == Mm(AnyType, AnyType)

MDumbInt == Mm(Exact("DumbInt"), SubclassOf("object"))

\* the types of the values that are converted
ReqTypes == {"object", "Dumb", "DumbInt"}

\* the metamorphoses that are asked for: Mm(from_ = type(value), to_any = object)
ReqMms == {Mm(Exact(c), SubclassOf("object")) : c \in ReqTypes}

\* the constructor calls, in the order in which they are made, all of them
\* before the first call of cast_for: Identity(), MyCast(), and a cast with
\* a setting and a map of its own,
\* MyCast(msg = 'an int', mm_to_cast = {MDumb: <cast 1>, MDumbInt: <cast 1>})
CastInputs ==
    << {[cls |-> "Identity", settings |-> EmptyDict]},
       {[cls |-> "MyCast", settings |-> EmptyDict]},
       {[cls |-> "MyCast",
         settings |-> ("msg" :> StrV("an int"))
                          @@ ("mm_to_cast" :> DictV((MDumb :> 1) @@ (MDumbInt :> 1)))]} >>

\* the calls of register, in the order in which they are made (module level
\* calls, as in djangocast.py)
RegInputs ==
    << [cast |-> 2, mm |-> MDumb], [cast |-> 2, mm |-> MObject],
       [cast |-> 1, mm |-> MInt], [cast |-> 1, mm |-> MAny] >>

World == [confs |-> confs, metas |-> metas, casts |-> casts]

CommitWorld(w) == confs' = w.confs /\ metas' = w.metas /\ casts' = w.casts

CastIds == 1..Len(casts)

\* the casts that the settings of a constructor call refer to
RefsOf(settings) ==
    (IF "mm_to_cast" \in DOMAIN settings
     THEN {settings["mm_to_cast"].d[m] : m \in DOMAIN settings["mm_to_cast"].d}
     ELSE {})
    \cup (IF "key_to_cast" \in DOMAIN settings
          THEN {settings["key_to_cast"].d[k] : k \in DOMAIN settings["key_to_cast"].d}
          ELSE {})
    \cup (IF "value_cast" \in DOMAIN settings /\ settings["value_cast"] # None
          THEN {settings["value_cast"].id}
          ELSE {})
    \cup (IF "key_cast" \in DOMAIN settings /\ settings["key_cast"] # None
          THEN {settings["key_cast"].id}
          ELSE {})
    \cup (IF "element_cast" \in DOMAIN settings /\ settings["element_cast"] # None
          THEN {settings["element_cast"].id}
          ELSE {})

\* the casts built by a constructor call, and those built by a resolution
Built == {c \in CastIds : casts[c].by = 0}

Clones == CastIds \ Built

\* the n-th constructor call of inputs
NewCast(inputs, inp) ==
    /\ Built = CastIds
    /\ Len(casts) < Len(inputs)
    /\ inp \in inputs[Len(casts) + 1]
    /\ RefsOf(inp.settings) \subseteq CastIds
    /\ \E r \in {Cast_new(World, inp.cls, inp.settings, CastNameOrder)} :
           /\ CommitWorld(r.st)
           /\ last' = [op |-> "Cast", new |-> r.id, err |-> r.err]
    /\ UNCHANGED <<mm_to_cast, steps, others>>

\* register(cast, mm), before the first resolution
register(cast, mm) ==
    /\ cast \in Built
    /\ Built = CastIds
    /\ Cardinality(DOMAIN mm_to_cast) < Len(RegInputs)
    /\ [cast |-> cast, mm |-> mm] = RegInputs[Cardinality(DOMAIN mm_to_cast) + 1]
    /\ mm_to_cast' = Put(mm_to_cast, mm, cast)
    /\ last' = [op |-> "register", cast |-> cast, mm |-> mm, err |-> "none"]
    /\ UNCHANGED <<confs, metas, casts, steps, others>>

\* self.cast_for(mm)
CastFor(self, mm) ==
    /\ \E r \in {cast_for(World, mm_to_cast, self, mm, CastNameOrder)} :
           /\ Len(r.w.casts) <= MaxCasts
           /\ CommitWorld(r.w)
           /\ last' = [op |-> "cast_for", self |-> self, mm |-> mm, err |-> r.err,
                       new |-> r.new, cast |-> r.cast, closest |-> r.closest, named |-> r.named]
    /\ UNCHANGED <<mm_to_cast, steps, others>>

Init ==
    /\ confs = Classes.confs
    /\ metas = Classes.metas
    /\ casts = <<>>
    /\ mm_to_cast = EmptyDict
    /\ last = [op |-> "none", err |-> "none"]
    /\ steps = 0
    /\ NoOthers

Next ==
    \/ \E i \in 1..Len(CastInputs) : \E inp \in CastInputs[i] : NewCast(CastInputs, inp)
    \/ \E i \in 1..Len(RegInputs) : register(RegInputs[i].cast, RegInputs[i].mm)
    \/ \E self \in CastIds, mm \in ReqMms : CastFor(self, mm)

Spec == Init /\ [][Next]_vars

(***************************************************************************)
(* Properties of the resolution machine                                    *)
(***************************************************************************)
Resolved == last.op = "cast_for" /\ last.err = "none"

\* the local map of a cast, and the candidates of its resolutions
LocalOf(c) == settings_of(World, c)["mm_to_cast"].d

CandidatesOf(c) == DOMAIN mm_to_cast \cup DOMAIN LocalOf(c)

MatchingOf(c, mm) == {m \in CandidatesOf(c) : MmMatches(m, mm)}

\* the cast that candidate m stands for in the resolutions of cast c
ChoiceOf(c, m) == IF m \in DOMAIN LocalOf(c) THEN LocalOf(c)[m] ELSE mm_to_cast[m]

\* C1: a resolution chooses among the keys of the global map and of the
\* resolving cast's own mm_to_cast and overlooks none of them; when the
\* chosen key is in the local map the cast is the local entry, also when
\* the global map has that key too, and otherwise it is the global entry.
C1_LocalFirst ==
    last.op = "cast_for" =>
        /\ last.err = "NoConverterFoundError" => MatchingOf(last.self, last.mm) = {}
        /\ last.err = "none" =>
            /\ last.closest \in CandidatesOf(last.self)
            /\ last.closest \in DOMAIN LocalOf(last.self)
                   => last.cast = LocalOf(last.self)[last.closest]
            /\ last.closest \notin DOMAIN LocalOf(last.self)
                   => last.cast = mm_to_cast[last.closest]

\* a key registered in both maps with different casts: the local one is taken
C1_Witness ==
    /\ Resolved
    /\ last.closest \in DOMAIN LocalOf(last.self) \cap DOMAIN mm_to_cast
    /\ LocalOf(last.self)[last.closest] # mm_to_cast[last.closest]
    /\ last.cast = LocalOf(last.self)[last.closest]

\* C2: the key chosen by a resolution matches the request, and every other
\* matching candidate is less specific: its source side is less specific,
\* or the source sides are equal and its destination side is less specific.
\* With (object, object) and (Dumb, object) among the candidates, (Dumb,
\* object) is chosen for a Dumb and (object, object) for an object.
C2_MostSpecific ==
    Resolved =>
        /\ last.closest \in MatchingOf(last.self, last.mm)
        /\ \A b \in MatchingOf(last.self, last.mm) \ {last.closest} :
               \/ MoreSpecific(last.closest.from_, b.from_)
               \/ last.closest.from_ = b.from_ /\ MoreSpecific(last.closest.to, b.to)
        /\ {MObject, MDumb} \subseteq CandidatesOf(last.self) =>
               /\ last.mm = Mm(Exact("Dumb"), SubclassOf("object")) => last.closest = MDumb
               /\ last.mm = Mm(Exact("object"), SubclassOf("object")) => last.closest = MObject

\* (Dumb, object) is chosen for a Dumb although (object, object) matches too
C2_Witness ==
    /\ Resolved
    /\ last.mm = Mm(Exact("Dumb"), SubclassOf("object"))
    /\ {MObject, MDumb} \subseteq MatchingOf(last.self, last.mm)
    /\ last.closest = MDumb
    /\ last.new \in Clones

\* two matching candidates, neither more specific than the other, and no
\* matching candidate more specific than one of them
Incomparable(a, b) == a # b /\ ~Closer(a, b) /\ ~Closer(b, a)

Tie(c, mm) ==
    \E a, b \in MatchingOf(c, mm) :
        /\ Incomparable(a, b)
        /\ \A m \in MatchingOf(c, mm) : ~Closer(m, a) /\ ~Closer(m, b)

\* C3: a resolution with two incomparable matching candidates and none more
\* specific fails with AmbiguousConversionError and builds no cast.
C3_Ambiguous ==
    last.op = "cast_for" /\ Tie(last.self, last.mm) =>
        /\ last.err = "AmbiguousConversionError"
        /\ last.new = 0
        /\ last.cast = 0

\* a DumbInt is asked for while (Dumb, object) and (int, object) are candidates
C3_Witness ==
    /\ last.op = "cast_for"
    /\ Tie(last.self, last.mm)
    /\ {MDumb, MInt} \subseteq MatchingOf(last.self, last.mm)
    /\ last.err = "AmbiguousConversionError"

\* C4: a resolution that no candidate matches fails with
\* NoConverterFoundError, names the metamorphosis asked for and builds no cast.
C4_NoConverter ==
    last.op = "cast_for" /\ MatchingOf(last.self, last.mm) = {} =>
        /\ last.err = "NoConverterFoundError"
        /\ last.named = last.mm
        /\ last.new = 0
        /\ last.cast = 0

\* an object is asked for while only (Dumb, object) is a candidate
C4_Witness ==
    /\ last.op = "cast_for"
    /\ CandidatesOf(last.self) # {}
    /\ MatchingOf(last.self, last.mm) = {}
    /\ last.err = "NoConverterFoundError"
    /\ last.named = last.mm

\* the cast built by a constructor call from which cast c descends
RECURSIVE RootOf(_)
RootOf(c) == IF casts[c].by = 0 THEN c ELSE RootOf(casts[c].by)

\* C6: every setting that a cast built by a resolution shares with the cast
\* at the root of its chain of resolutions has the root's value.
C6_Propagates ==
    \A c \in Clones :
        \A name \in DOMAIN settings_of(World, c) \cap DOMAIN settings_of(World, RootOf(c)) :
            settings_of(World, c)[name] = settings_of(World, RootOf(c))[name]

(***************************************************************************)
(* The items machine: a divide and conquer cast with a table of casts per  *)
(* key and a cast for all values is asked for the cast of an item.         *)
(***************************************************************************)
Keys == {"a", "b"}

\* the constructor calls, in the order in which they are made: Identity(),
\* MyCast(), MyCast(msg = 'index a'), and the cast of the items with or
\* without key_to_cast = {'a': <cast 3>} and value_cast = <cast 1>
ItemInputs ==
    << {[cls |-> "Identity", settings |-> EmptyDict]},
       {[cls |-> "MyCast", settings |-> EmptyDict]},
       {[cls |-> "MyCast", settings |-> "msg" :> StrV("index a")]},
       {[cls |-> "ItemsCast", settings |-> ("key_to_cast" :> k) @@ ("value_cast" :> v)] :
            k \in {D0, DictV("a" :> 3)}, v \in {None, CastV(1)}} >>

\* self.cast_for_item(key, value), called by iter_output for each item
CastForItem(self, key, value) ==
    /\ casts[self].cls = "ItemsCast"
    /\ \E r \in {cast_for_item(World, mm_to_cast, self, key, value, CastNameOrder)} :
           /\ Len(r.w.casts) <= MaxCasts
           /\ CommitWorld(r.w)
           /\ last' = [op |-> "cast_for_item", self |-> self, key |-> key, value |-> value,
                       mm |-> get_item_mm(key, value), err |-> r.err, new |-> r.new,
                       cast |-> r.cast, closest |-> r.closest, named |-> r.named]
    /\ UNCHANGED <<mm_to_cast, steps, others>>

NextItems ==
    \/ \E i \in 1..Len(ItemInputs) : \E inp \in ItemInputs[i] : NewCast(ItemInputs, inp)
    \/ \E i \in 1..Len(RegInputs) : register(RegInputs[i].cast, RegInputs[i].mm)
    \/ \E self \in CastIds, key \in Keys, value \in ReqTypes : CastForItem(self, key, value)

SpecItems == Init /\ [][NextItems]_vars

(***************************************************************************)
(* Properties of the items machine                                         *)
(***************************************************************************)
KeyToCastOf(c) == settings_of(World, c)["key_to_cast"].d

ValueCastOf(c) == settings_of(World, c)["value_cast"]

MaxClasses == 4

ClassIds == 1..Len(classes)

\* the class Cast itself: a merged setting, as mm_to_cast is
RootInput ==
    [_schema |-> ("y" :> Meta(Absent, "copy_and_update", Absent)), settings |-> ("y" :> Da1)]

\* the attribute `defaults` of a class body; a body without it gives
\* CastSettings()
ClassInputs ==
    { [_schema |-> EmptyDict, settings |-> EmptyDict],
      [_schema |-> ("x" :> Meta("int", Absent, Absent)), settings |-> ("x" :> IntV(1))],
      [_schema |-> EmptyDict, settings |-> ("x" :> Db2)],
      [_schema |-> EmptyDict, settings |-> ("y" :> Db2)] }

RECURSIVE Ancestors(_)
Ancestors(k) ==
    {classes[k].bases[i] : i \in 1..Len(classes[k].bases)}
        \cup UNION {Ancestors(classes[k].bases[i]) : i \in 1..Len(classes[k].bases)}

\* type.__new__ gives the class a method resolution order only when no
\* parent is listed before one of its own subclasses
HasMro(bases) ==
    \A i, j \in 1..Len(bases) : i < j => bases[i] # bases[j] /\ bases[i] \notin Ancestors(bases[j])

BasesInputs ==
    {<<b>> : b \in ClassIds} \cup {<<a, b>> : a, b \in ClassIds}

\* class C(*bases): defaults = CastSettings(...)
DefineClass(bases, inp) ==
    /\ Len(classes) < MaxClasses
    /\ HasMro(bases)
    /\ \E a \in {alloc_schema(Store, inp._schema, Only(NameOrder, DOMAIN inp._schema))} :
       \E nd \in {init(a.st, a.ids, inp.settings, NameOrder)} :
       \E r \in {CastType_new(nd.st, [i \in 1..Len(bases) |-> classes[bases[i]].defaults],
                              nd.id, NameOrder)} :
           /\ Commit(IF r.err = "none" THEN r.st ELSE Store)
           /\ classes' = IF r.err = "none"
                         THEN Append(classes, [bases |-> bases, defaults |-> r.id])
                         ELSE classes
           /\ last' = [op |-> "class", bases |-> bases, own |-> inp.settings, err |-> r.err]
    /\ UNCHANGED <<mm_to_cast, casts, steps, conversion>>

InitClasses ==
    /\ confs = <<>>
    /\ metas = <<>>
    /\ mm_to_cast = EmptyDict
    /\ casts = <<>>
    /\ last = [op |-> "none", err |-> "none"]
    /\ steps = 0
    /\ classes = <<>>
    /\ NoConversion

NextClasses ==
    \/ classes = <<>> /\ DefineClass(<<>>, RootInput)
    \/ \E bases \in BasesInputs, inp \in ClassInputs : DefineClass(bases, inp)

SpecClasses == InitClasses /\ [][NextClasses]_vars

(***************************************************************************)
(* Properties of the class machine                                         *)
(***************************************************************************)
DefaultsOf(k) == confs[classes[k].defaults]._values

\* the parents, by their place in the class statement, that give a value to n
Declaring(bases, n) == {i \in 1..Len(bases) : n \in DOMAIN DefaultsOf(bases[i])}

FirstDeclaring(bases, n) ==
    bases[CHOOSE i \in Declaring(bases, n) : \A j \in Declaring(bases, n) : i <= j]

\* C11: in the defaults of a class made from parent cast classes, a setting
\* whose override strategy is the replacement has the value of the class's
\* own defaults when they give one, and otherwise the value of the first
\* listed parent that gives one (the parents are applied from the last
\* listed to the first listed, the own defaults last).
C11_Step ==
    (last'.op = "class" /\ last'.err = "none" /\ last'.bases # <<>>) =>
        LET new == confs'[classes'[Len(classes')].defaults]
        IN  \A n \in DOMAIN new._schema :
                metas'[new._schema[n]].override = Absent =>
                    IF n \in DOMAIN last'.own
                    THEN n \in DOMAIN new._values /\ new._values[n] = last'.own[n]
                    ELSE IF Declaring(last'.bases, n) # {}
                    THEN /\ n \in DOMAIN new._values
                         /\ new._values[n] = DefaultsOf(FirstDeclaring(last'.bases, n))[n]
                    ELSE n \notin DOMAIN new._values

C11_ParentsLastToFirst == [][C11_Step]_vars

\* a class of two parents that give different values to x, and that gives
\* none itself, has the value of the first listed parent
C11_Witness ==
    /\ last.op = "class" /\ last.err = "none"
    /\ Len(last.bases) = 2
    /\ "x" \notin DOMAIN last.own
    /\ \A i \in 1..2 : "x" \in DOMAIN DefaultsOf(last.bases[i])
    /\ DefaultsOf(last.bases[1])["x"] # DefaultsOf(last.bases[2])["x"]
    /\ DefaultsOf(Len(classes))["x"] = DefaultsOf(last.bases[1])["x"]


(***************************************************************************)
(* Schemas (CompiledSchema).  A schema maps keys to types; KeyAny stands    *)
(* for every key that is not listed, KeyFinal marks a value that has no     *)
(* items.  The implementation is not part of the sources: validate_schema   *)
(* follows the rule of the specification, validate_schemas_match the        *)
(* outcomes that the tests of CompiledSchema assert.                        *)
(***************************************************************************)
KeyAny == "KeyAny"

KeyFinal == "KeyFinal"

\* KeyFinal next to a concrete key is refused, KeyFinal next to KeyAny is not
validate_schema_final_with_any(schema) ==
    IF KeyFinal \in DOMAIN schema /\ DOMAIN schema \ {KeyFinal, KeyAny} # {}
    THEN "SchemaNotValid"
    ELSE "none"

validate_schema(schema) ==
    IF KeyFinal \in DOMAIN schema /\ DOMAIN schema # {KeyFinal}
    THEN "SchemaNotValid"
    ELSE "none"

\* the keys of the destination have to be keys of the source
validate_schemas_match_destination_in_source(schema_in, schema_out) ==
    IF KeyFinal \in DOMAIN schema_in \/ KeyFinal \in DOMAIN schema_out
    THEN IF KeyFinal \in DOMAIN schema_in /\ KeyFinal \in DOMAIN schema_out
         THEN "none" ELSE "SchemasDontMatch"
    ELSE IF KeyAny \in DOMAIN schema_out THEN "none"
    ELSE IF KeyAny \in DOMAIN schema_in THEN "SchemasDontMatch"
    ELSE IF DOMAIN schema_out \subseteq DOMAIN schema_in THEN "none"
    ELSE "SchemasDontMatch"

\* a wildcard in the destination is a key like the others
validate_schemas_match_any_is_a_key(schema_in, schema_out) ==
    IF KeyFinal \in DOMAIN schema_in \/ KeyFinal \in DOMAIN schema_out
    THEN IF KeyFinal \in DOMAIN schema_in /\ KeyFinal \in DOMAIN schema_out
         THEN "none" ELSE "SchemasDontMatch"
    ELSE IF DOMAIN schema_in \subseteq DOMAIN schema_out THEN "none"
    ELSE "SchemasDontMatch"

\* {a, c} with {a, b, c}, {a, b, c} with {KeyAny}, {KeyAny} with {KeyAny} and
\* {KeyFinal} with {KeyFinal} match; {0, 1} with {1, 2}, {KeyFinal} with {1},
\* {KeyAny} with {a, b} and {KeyFinal} with {KeyAny} do not
validate_schemas_match(schema_in, schema_out) ==
    IF KeyFinal \in DOMAIN schema_in \/ KeyFinal \in DOMAIN schema_out
    THEN IF KeyFinal \in DOMAIN schema_in /\ KeyFinal \in DOMAIN schema_out
         THEN "none" ELSE "SchemasDontMatch"
    ELSE IF KeyAny \in DOMAIN schema_out THEN "none"
    ELSE IF KeyAny \in DOMAIN schema_in THEN "SchemasDontMatch"
    ELSE IF DOMAIN schema_in \subseteq DOMAIN schema_out THEN "none"
    ELSE "SchemasDontMatch"

(***************************************************************************)
(* The schema machine: schemas are validated, and pairs of valid schemas    *)
(* are matched.                                                            *)
(***************************************************************************)
SchemaKeys == {"a", "b", "c", KeyAny, KeyFinal}

SchemaTypes == {"int", "str"}

SchemaInputs == UNION {[K -> {t}] : K \in SUBSET SchemaKeys, t \in SchemaTypes}

\* the schemas given to validate_schemas_match: valid, with a key at least
MatchInputs == {s \in SchemaInputs : DOMAIN s # {} /\ validate_schema(s) = "none"}

ValidateSchema(schema) ==
    /\ last' = [op |-> "validate_schema", schema |-> schema, err |-> validate_schema(schema)]
    /\ UNCHANGED <<confs, metas, mm_to_cast, casts, steps, others>>

ValidateSchemasMatch(schema_in, schema_out) ==
    /\ last' = [op |-> "validate_schemas_match", schema_in |-> schema_in,
                schema_out |-> schema_out,
                err |-> validate_schemas_match(schema_in, schema_out)]
    /\ UNCHANGED <<confs, metas, mm_to_cast, casts, steps, others>>

NextSchemas ==
    \/ \E schema \in SchemaInputs : ValidateSchema(schema)
    \/ \E schema_in, schema_out \in MatchInputs : ValidateSchemasMatch(schema_in, schema_out)

SpecSchemas == InitClasses /\ [][NextSchemas]_vars

(***************************************************************************)
(* Properties of the schema machine                                        *)
(***************************************************************************)
Validated == last.op = "validate_schema"

Matched == last.op = "validate_schemas_match"

KeysIn == DOMAIN last.schema_in

KeysOut == DOMAIN last.schema_out

\* C13: validate_schema fails, with SchemaNotValid, exactly for a schema that
\* holds KeyFinal and another key, concrete or KeyAny; a schema of KeyFinal
\* only, of KeyAny only, of concrete keys, or of concrete keys and KeyAny is
\* accepted.
C13_FinalAlone ==
    Validated =>
        LET keys == DOMAIN last.schema
        IN  /\ last.err \in {"none", "SchemaNotValid"}
            /\ last.err = "SchemaNotValid" <=> \E k, f \in keys : f = KeyFinal /\ k # f
            /\ (keys = {KeyFinal} \/ KeyFinal \notin keys) => last.err = "none"

C13_Witness ==
    /\ Validated
    /\ DOMAIN last.schema = {KeyFinal, KeyAny}
    /\ last.err = "SchemaNotValid"

\* C14 as stated: the match fails whenever the destination has a key, other
\* than KeyAny, that the source has not, and succeeds when the keys of the
\* destination are keys of the source.
C14_DestinationInSource ==
    Matched =>
        /\ (KeysOut \ {KeyAny}) \ KeysIn # {} => last.err = "SchemasDontMatch"
        /\ KeysOut \subseteq KeysIn => last.err = "none"

\* C14, amended: a destination without KeyAny is refused, with
\* SchemasDontMatch, whenever the source has a key that the destination has
\* not; a key of the destination that the source has not is no reason to
\* fail: the source {a} matches the destination {a, b}.
C14_SourceInDestination ==
    Matched =>
        /\ (KeyAny \notin KeysOut /\ KeysIn \ KeysOut # {}) => last.err = "SchemasDontMatch"
        /\ (KeysIn = {"a"} /\ KeysOut = {"a", "b"}) => last.err = "none"

C14_Witness ==
    /\ Matched
    /\ KeysIn = {"a"}
    /\ KeysOut = {"a", "b"}
    /\ last.err = "none"

\* C15: a source whose keys are all keys of the destination is accepted,
\* also when the destination has more keys, and a source of concrete keys or
\* KeyAny is accepted by a destination of KeyAny only.
C15_Accepted ==
    Matched =>
        /\ KeysIn \subseteq KeysOut => last.err = "none"
        /\ (KeysOut = {KeyAny} /\ KeyFinal \notin KeysIn) => last.err = "none"

C15_Witness ==
    /\ Matched
    /\ KeysIn = {"a", "c"}
    /\ KeysOut = {"a", "b", "c"}
    /\ last.schema_in # last.schema_out
    /\ last.err = "none"


(***************************************************************************)
(* Conversions (daccasts.DivideAndConquerCast, CastItems and the mixins).   *)
(* A container in memory is [t, items]: "list" or "dict", and its items     *)
(* [key, value] in the order in which it is iterated.  A value is an atom   *)
(* or a reference RefV(id) to the container objs[id].  The strings of the   *)
(* inputs have one character.                                               *)
(***************************************************************************)
\* the deepest nesting of calls that the interpreter allows, counted in
\* conversions
MaxDepth == 3

RefV(id) == [t |-> "ref", id |-> id]

TupleV(a, b) == [t |-> "tuple", items |-> <<a, b>>]

\* '%s %s' % (msg, inpt)
FormatV(msg, inpt) == [t |-> "str", fmt |-> <<msg, inpt>>]

KeyValue(key, value) == [key |-> key, value |-> value]

\* type(value)
TypeOf(os, v) == IF v.t = "ref" THEN os[v.id].t ELSE v.t

\* the mixins of each divide and conquer cast
Mixins ==
    ("IterableToIterable" :> [from_ |-> "Iterable", to |-> "Iterable"])
        @@ ("MappingToMapping" :> [from_ |-> "Mapping", to |-> "Mapping"])
        @@ ("IterableToMapping" :> [from_ |-> "Iterable", to |-> "Mapping"])
        @@ ("StripNone" :> [from_ |-> "Iterable", to |-> "Iterable"])
        @@ ("ListToList" :> [from_ |-> "Iterable", to |-> "Iterable"])

\* the classes made of the mixins of containercast, and those of daccasts
Legacy == {"ListToList"}

Divide == DOMAIN Mixins \ Legacy

IsDivideAndConquer(cls) == cls \in DOMAIN Mixins

\* CastItems.strip_item, and its override in StripNone: return value is None
strip_item(cls, key, value) == cls = "StripNone" /\ value.t = "NoneType"

\* FromIterable.iter_input: enumerate(inpt); FromMapping.iter_input:
\* inpt.iteritems()
iter_input(cls, os, inpt) ==
    IF Mixins[cls].from_ = "Iterable"
    THEN IF inpt.t = "ref"
         THEN [err |-> "none",
               items |-> [i \in 1..Len(os[inpt.id].items) |->
                             KeyValue(IntV(i - 1),
                                      IF os[inpt.id].t = "dict" THEN os[inpt.id].items[i].key
                                      ELSE os[inpt.id].items[i].value)]]
         ELSE IF inpt.t = "str"
         THEN [err |-> "none", items |-> <<KeyValue(IntV(0), inpt)>>]
         ELSE [err |-> "TypeError", items |-> <<>>]
    ELSE IF inpt.t = "ref" /\ os[inpt.id].t = "dict"
         THEN [err |-> "none", items |-> os[inpt.id].items]
         ELSE [err |-> "AttributeError", items |-> <<>>]

\* self.to can be called, and builds a container
Callable(to) == to.t = "type" /\ to.ts.kind = "Exact" /\ to.ts.type \in {"list", "dict"}

\* what build_output builds: ToListMixin a list, ToIterable and ToMapping
\* what self.to builds
Builds(w, c) ==
    IF w.casts[c].cls \in Legacy THEN "list" ELSE settings_of(w, c)["to"].ts.type

\* self.key_cast, for the casts that have the setting
key_cast_of(w, c) ==
    IF "key_cast" \in DOMAIN settings_of(w, c) THEN settings_of(w, c)["key_cast"] ELSE None

Context(inpt) == DictV("input" :> inpt)

NoFrame ==
    [cast |-> 0, inpt |-> None, items |-> <<>>, i |-> 0, out |-> <<>>,
     key |-> None, ikey |-> None, src |-> 0, used |-> <<>>, log |-> <<>>]

Returned(w, value) ==
    [kind |-> "returned", w |-> w, value |-> value, err |-> "none", frame |-> NoFrame]

Raised(w, err) == [kind |-> "raised", w |-> w, value |-> None, err |-> err, frame |-> NoFrame]

\* cast.call(inpt) behind the wrapper of CastType: the operation context is
\* set, the operation runs, the context is reset.  Identity returns its
\* input, MyCast formats it; a divide and conquer cast calls iter_input,
\* makes the generator of iter_output, and starts build_output, which reads
\* the items one by one: the call stays in progress, with the frame
\* [cast, inpt, items, i: the items read, out: the elements built so far,
\*  key, ikey, src: the key, the input key and the place of inpt in the
\*  call that converts it as an item].
call(w, depth, c, inpt) ==
    LET cls == w.casts[c].cls
        started == [w EXCEPT !.casts[c]._context = Context(inpt)]
        ended == [w EXCEPT !.casts[c]._context = None]
    IN  IF cls = "Identity" THEN Returned(ended, inpt)
        ELSE IF cls = "MyCast" THEN Returned(ended, FormatV(settings_of(w, c)["msg"], inpt))
        ELSE IF ~IsDivideAndConquer(cls) THEN Raised(started, "AttributeError")
        ELSE IF depth >= MaxDepth THEN Raised(started, "RuntimeError")
        ELSE IF iter_input(cls, w.objs, inpt).err # "none"
        THEN Raised(started, iter_input(cls, w.objs, inpt).err)
        ELSE IF cls \notin Legacy /\ ~Callable(settings_of(w, c)["to"])
        THEN Raised(started, "TypeError")
        ELSE [kind |-> "called", w |-> started, value |-> None, err |-> "none",
              frame |-> [NoFrame EXCEPT !.cast = c, !.inpt = inpt,
                                        !.items = iter_input(cls, w.objs, inpt).items]]

Hashable(v) == v.t \notin {"ref"}

\* one element of the argument of dict(...): a sequence of two elements, the
\* first of which can be a key
AsPair(os, e) ==
    IF e.t = "tuple"
    THEN [err |-> IF Hashable(e.items[1]) THEN "none" ELSE "TypeError", pair |-> e]
    ELSE IF e.t = "ref"
    THEN IF Len(os[e.id].items) # 2 THEN [err |-> "ValueError", pair |-> e]
         ELSE LET a == IF os[e.id].t = "dict" THEN os[e.id].items[1].key
                       ELSE os[e.id].items[1].value
                  b == IF os[e.id].t = "dict" THEN os[e.id].items[2].key
                       ELSE os[e.id].items[2].value
              IN  [err |-> IF Hashable(a) THEN "none" ELSE "TypeError", pair |-> TupleV(a, b)]
    ELSE IF e.t = "str" THEN [err |-> "ValueError", pair |-> e]
    ELSE [err |-> "TypeError", pair |-> e]

\* elements put at the head of the output
deliver_first(w, f, key, value, src) ==
    LET to == Builds(w, f.cast)
        element == IF Mixins[w.casts[f.cast].cls].to = "Mapping" THEN TupleV(key, value)
                   ELSE value
        pair == AsPair(w.objs, element)
    IN  IF to = "dict" /\ pair.err # "none" THEN [err |-> pair.err, frame |-> f]
        ELSE [err |-> "none",
              frame |-> [f EXCEPT !.i = @ + 1, !.log = Append(@, "take"),
                                  !.out = <<[element |-> IF to = "dict" THEN pair.pair
                                                         ELSE element,
                                             src |-> src]>> \o @]]

\* the generator of iter_output yields (key, value) to build_output:
\* ToIterable passes the value, ToMapping the pair, to self.to, which takes
\* the element in: list(...) appends it, dict(...) reads it as a pair
deliver(w, f, key, value, src) ==
    LET to == Builds(w, f.cast)
        element == IF Mixins[w.casts[f.cast].cls].to = "Mapping" THEN TupleV(key, value)
                   ELSE value
        pair == AsPair(w.objs, element)
    IN  IF to = "dict" /\ pair.err # "none" THEN [err |-> pair.err, frame |-> f]
        ELSE [err |-> "none",
              frame |-> [f EXCEPT !.i = @ + 1, !.log = Append(@, "take"),
                                  !.out = Append(@, [element |-> IF to = "dict" THEN pair.pair
                                                                 ELSE element,
                                                     src |-> src])]]

\* the items of dict(pairs): a key that comes again keeps its place and
\* takes the new value
RECURSIVE DictItems(_)
DictItems(out) ==
    IF out = <<>> THEN <<>>
    ELSE LET rest == DictItems(SubSeq(out, 1, Len(out) - 1))
             k == out[Len(out)].element.items[1]
             v == out[Len(out)].element.items[2]
         IN  IF \E j \in 1..Len(rest) : rest[j].key = k
             THEN [j \in 1..Len(rest) |-> IF rest[j].key = k THEN KeyValue(k, v) ELSE rest[j]]
             ELSE Append(rest, KeyValue(k, v))

\* a conversion that gives its input back when nothing was converted away
build_output_input_kept(os, to, inpt, out) ==
    LET items == IF to = "list"
                 THEN [j \in 1..Len(out) |-> KeyValue(IntV(j - 1), out[j].element)]
                 ELSE DictItems(out)
    IN  IF inpt.t = "ref" /\ os[inpt.id] = [t |-> to, items |-> items]
        THEN [objs |-> os, value |-> inpt]
        ELSE [objs |-> Append(os, [t |-> to, items |-> items]), value |-> RefV(Len(os) + 1)]

\* build_output: self.to(...) has built a new container of the elements
build_output(os, to, inpt, out) ==
    LET items == IF to = "list"
                 THEN [j \in 1..Len(out) |-> KeyValue(IntV(j - 1), out[j].element)]
                 ELSE DictItems(out)
    IN  [objs |-> Append(os, [t |-> to, items |-> items]), value |-> RefV(Len(os) + 1)]

\* the keys from the outermost call to the item that `key` names in the
\* innermost call of stk
KeyPath(stk, key) == [j \in 1..Len(stk) |-> IF j < Len(stk) THEN stk[j + 1].ikey ELSE key]

Step(w, stk, err, at) == [w |-> w, stack |-> stk, err |-> err, at |-> at, value |-> None]

\* the item that the loop of iter_output has read is converted and
\* yielded; `used` keeps the casts that cast_for_item has returned for the
\* items of the call, and `log` what the call has done so far: "read" an
\* item from the iterator of iter_input, "convert" it, "take" the converted
\* item into the output
convert_item(w, reg, stk, names) ==
    LET top == Len(stk)
        f == stk[top]
        self == f.cast
        it == f.items[f.i + 1]
        key_cast == key_cast_of(w, self)
        at == KeyPath(stk, it.key)
    IN  One({
          IF r.err # "none" THEN Step(w, stk, r.err, at)
          ELSE One({One({
            IF k.kind # "returned"
            THEN Step(k.w, s1, IF k.kind = "raised" THEN k.err ELSE "RuntimeError", at)
            ELSE One({
              IF v.kind = "raised" THEN Step(v.w, s1, v.err, at)
              ELSE IF v.kind = "called"
              THEN Step(v.w, Append(s1, [v.frame EXCEPT !.key = k.value, !.ikey = it.key,
                                                        !.src = f.i + 1]), "none", <<>>)
              ELSE One({
                IF d.err # "none" THEN Step(v.w, s1, d.err, at)
                ELSE Step(v.w, [s1 EXCEPT ![top] = d.frame], "none", <<>>) :
                    d \in {deliver(v.w, s1[top], k.value, v.value, f.i + 1)}}) :
                  v \in {call(k.w, top, r.new, it.value)}}) :
                k \in {IF Truthy(key_cast) THEN call(r.w, top, key_cast.id, it.key)
                       ELSE Returned(r.w, it.key)}}) :
                  s1 \in {[stk EXCEPT ![top].used = Append(@, r.new),
                                      ![top].log = @ \o <<"read", "convert">>]}}) :
              r \in {IF w.casts[self].cls \in Legacy
                     THEN ContainerCast_cast_for_item(w, reg, self, it.key,
                                                      TypeOf(w.objs, it.value), names)
                     ELSE cast_for_item(w, reg, self, it.key, TypeOf(w.objs, it.value),
                                        names)}})

\* a loop that looks for the cast of the item before it asks strip_item
next_item_strip_late(w, reg, stk, names) ==
    LET top == Len(stk)
        f == stk[top]
        it == f.items[f.i + 1]
    IN  IF strip_item(w.casts[f.cast].cls, it.key, it.value)
        THEN One({Step(r.w, [stk EXCEPT ![top].i = @ + 1, ![top].log = Append(@, "read")],
                       r.err, IF r.err = "none" THEN <<>> ELSE KeyPath(stk, it.key)) :
                      r \in {cast_for_item(w, reg, f.cast, it.key, TypeOf(w.objs, it.value),
                                           names)}})
        ELSE convert_item(w, reg, stk, names)

\* one turn of the loop of iter_output in the innermost call: the next item
\* is read from the input, and stripped or converted
next_item(w, reg, stk, names) ==
    LET top == Len(stk)
        f == stk[top]
        it == f.items[f.i + 1]
    IN  IF strip_item(w.casts[f.cast].cls, it.key, it.value)
        THEN Step(w, [stk EXCEPT ![top].i = @ + 1, ![top].log = Append(@, "read")],
                  "none", <<>>)
        ELSE convert_item(w, reg, stk, names)

\* the innermost call returns: its output is the value of the outermost
\* call, or the converted value of an item of the call around it
return_output(w, stk) ==
    LET top == Len(stk)
        f == stk[top]
        rest == SubSeq(stk, 1, top - 1)
    IN  One({
          One({
            IF rest = <<>> THEN [Step(w1, rest, "none", <<>>) EXCEPT !.value = b.value]
            ELSE One({
              IF d.err # "none" THEN Step(w1, rest, d.err, KeyPath(rest, f.ikey))
              ELSE Step(w1, [rest EXCEPT ![top - 1] = d.frame], "none", <<>>) :
                  d \in {deliver(w1, rest[top - 1], f.key, b.value, f.src)}}) :
                w1 \in {[w EXCEPT !.objs = b.objs, !.casts[f.cast]._context = None]}}) :
              b \in {build_output(w.objs, Builds(w, f.cast), f.inpt, f.out)}})

\* an exception caught by the loop of iter_output, which goes on with the
\* next item
unwind_item_skipped(stk, res) ==
    [stack |-> [stk EXCEPT ![Len(stk)].i = @ + 1], result |-> [res EXCEPT !.err = "none"]]

\* an exception leaves the innermost call: neither iter_output nor call nor
\* the wrapper of CastType handles it
unwind(stk, res) ==
    [stack |-> SubSeq(stk, 1, Len(stk) - 1), result |-> [res EXCEPT !.done = Len(stk) = 1]]


(***************************************************************************)
(* The conversion machine: four casts are built, one of them is called on  *)
(* a value, and the call runs item by item until it returns or raises.     *)
(* `result` is the state of the outermost call: started, done, the         *)
(* exception in flight or raised (err), the value returned, the keys that   *)
(* the exception carries (keys), and the keys of the item that failed (at). *)
(***************************************************************************)
MStr == Mm(SubclassOf("str"), SubclassOf("object"))

MList == Mm(SubclassOf("list"), SubclassOf("object"))

MDict == Mm(SubclassOf("dict"), SubclassOf("object"))

\* to = list, to = dict
ToOf(cls) == TypeV(Exact(IF Mixins[cls].to = "Mapping" THEN "dict" ELSE "list"))

\* the constructor calls, in the order in which they are made: Identity(),
\* MyCast(msg = 'an int'), a cast of flat containers such as
\* IterableToIterable(to = list, mm_to_cast = {Mm(): <cast 1>}), with or
\* without key_cast = <cast 2>, or a cast of lists of containercast with or
\* without element_cast, and a cast of nested containers,
\* mm_to_cast = {Mm(list): <cast 3>, Mm(dict): <cast 3>, Mm(int): <cast 1>},
\* with or without Mm(str): <cast 1>
ConvInputs ==
    << {[cls |-> "Identity", settings |-> EmptyDict]},
       {[cls |-> "MyCast", settings |-> "msg" :> StrV("an int")]},
       {[cls |-> cls,
         settings |-> ("to" :> ToOf(cls)) @@ ("mm_to_cast" :> DictV(m)) @@ ("key_cast" :> kc)] :
            cls \in Divide,
            m \in {MAny :> 1, (MInt :> 2) @@ (MStr :> 1)},
            kc \in {None, CastV(2)}}
           \cup {[cls |-> "ListToList", settings |-> "element_cast" :> ec] :
                     ec \in {None, CastV(1), CastV(2)}},
       {[cls |-> cls,
         settings |-> ("to" :> ToOf(cls))
                          @@ ("mm_to_cast" :> DictV((MList :> 3) @@ (MDict :> 3) @@ m))] :
            cls \in Divide,
            m \in {MInt :> 1, (MInt :> 1) @@ (MStr :> 1)}} >>

\* the containers in memory before the call: [1, 'a'], [1, <list 1>],
\* a list that contains itself, {'a': 1, 'b': 'b'} and [None, 1]
InitObjs ==
    << [t |-> "list", items |-> <<KeyValue(IntV(0), IntV(1)), KeyValue(IntV(1), StrV("a"))>>],
       [t |-> "list", items |-> <<KeyValue(IntV(0), IntV(1)), KeyValue(IntV(1), RefV(1))>>],
       [t |-> "list", items |-> <<KeyValue(IntV(0), IntV(1)), KeyValue(IntV(1), RefV(3))>>],
       [t |-> "dict", items |-> <<KeyValue(StrV("a"), IntV(1)), KeyValue(StrV("b"), StrV("b"))>>],
       [t |-> "list", items |-> <<KeyValue(IntV(0), None), KeyValue(IntV(1), IntV(1))>>] >>

\* the values that the casts are called on
RootValues == {RefV(i) : i \in 1..Len(InitObjs)} \cup {IntV(1)}

Memory == [confs |-> confs, metas |-> metas, casts |-> casts, objs |-> objs]

CommitMemory(w) == CommitWorld(w) /\ objs' = w.objs

Running == stack # <<>> /\ result.err = "none"

\* cast(inpt): Cast.__call__, the outermost call
ConvertCall(c, inpt) ==
    /\ Len(casts) = Len(ConvInputs)
    /\ ~result.started
    /\ \E r \in {call(Memory, 0, c, inpt)} :
           /\ CommitMemory(r.w)
           /\ stack' = IF r.kind = "called" THEN <<r.frame>> ELSE <<>>
           /\ result' = [NoResult EXCEPT !.started = TRUE, !.done = r.kind # "called",
                                         !.err = r.err, !.value = r.value,
                                         !.cast = c, !.inpt = inpt]
           /\ last' = [op |-> "call", cast |-> c, err |-> r.err]
    /\ UNCHANGED <<mm_to_cast, steps, classes>>

\* build_output asks the generator of iter_output for the next item
ConvertItem ==
    /\ Running
    /\ stack[Len(stack)].i < Len(stack[Len(stack)].items)
    /\ \E r \in {next_item(Memory, mm_to_cast, stack, CastNameOrder)} :
           /\ CommitMemory(r.w)
           /\ stack' = r.stack
           /\ result' = [result EXCEPT !.err = r.err, !.at = r.at]
           /\ last' = [op |-> "iter_output", cast |-> stack[Len(stack)].cast, err |-> r.err]
    /\ UNCHANGED <<mm_to_cast, steps, classes>>

\* the generator of iter_output is exhausted: build_output returns
ReturnOutput ==
    /\ Running
    /\ stack[Len(stack)].i = Len(stack[Len(stack)].items)
    /\ \E r \in {return_output(Memory, stack)} :
           /\ CommitMemory(r.w)
           /\ stack' = r.stack
           /\ result' = [result EXCEPT !.err = r.err, !.at = r.at, !.value = r.value,
                                       !.done = r.stack = <<>>]
           /\ last' = [op |-> "build_output", cast |-> stack[Len(stack)].cast, err |-> r.err]
    /\ UNCHANGED <<mm_to_cast, steps, classes>>

\* the exception in flight leaves the innermost call
Propagate ==
    /\ stack # <<>>
    /\ result.err # "none"
    /\ \E r \in {unwind(stack, result)} :
           /\ stack' = r.stack
           /\ result' = r.result
    /\ last' = [op |-> "raise", cast |-> stack[Len(stack)].cast, err |-> result.err]
    /\ UNCHANGED <<confs, metas, casts, objs, mm_to_cast, steps, classes>>

InitConvert ==
    /\ confs = ContainerClasses.confs
    /\ metas = ContainerClasses.metas
    /\ casts = <<>>
    /\ mm_to_cast = EmptyDict
    /\ last = [op |-> "none", err |-> "none"]
    /\ steps = 0
    /\ classes = <<>>
    /\ objs = InitObjs
    /\ stack = <<>>
    /\ result = NoResult

NextConvert ==
    \/ \E i \in 1..Len(ConvInputs) : \E inp \in ConvInputs[i] : NewCast(ConvInputs, inp)
    \/ \E c \in CastIds, inpt \in RootValues : ConvertCall(c, inpt)
    \/ ConvertItem
    \/ ReturnOutput
    \/ Propagate

SpecConvert == InitConvert /\ [][NextConvert]_vars


(***************************************************************************)
(* Properties of the conversion machine                                    *)
(***************************************************************************)
Failed == result.done /\ result.err # "none"

Succeeded == result.done /\ result.err = "none"

\* C16: once the conversion of an item has raised, the exception stays in
\* flight through every enclosing call up to the outermost one: no call
\* takes another item or an element into its output, no container is
\* built, the calls are left innermost first, and the outermost call ends
\* with the exception and without a value.
C16_Step ==
    result.err # "none" =>
        /\ result'.err = result.err
        /\ result'.value = None
        /\ objs' = objs
        /\ Len(stack') <= Len(stack)
        /\ stack' = SubSeq(stack, 1, Len(stack'))
        /\ result'.done => stack' = <<>>

C16_WholeConversionFails == [][C16_Step]_vars

\* the second item of the second item of the input fails after the first
\* items of both levels were converted, and the outermost call has raised
C16_Witness ==
    /\ Failed
    /\ stack = <<>>
    /\ result.value = None
    /\ result.at = <<IntV(1), IntV(1)>>
    /\ objs = InitObjs


\* C17: an exception that leaves the outermost call carries the keys of the
\* items in which it was raised, from the item of the outermost call to the
\* failing item.
C17_KeyPathCarried == Failed => result.keys = result.at


\* C18: a value that is reached again while its own decomposition is in
\* progress is not decomposed again, and the conversion of a structure that
\* contains itself does not run into the limit of the nesting of calls.
C18_CycleDetected ==
    /\ \A i, j \in 1..Len(stack) : i < j => stack[i].inpt # stack[j].inpt
    /\ result.err # "RuntimeError"


\* the outermost call was made on a list with the cast of flat containers,
\* whose items are converted by Identity or MyCast, and has returned
FlatSequence ==
    /\ Succeeded
    /\ result.cast = 3
    /\ result.inpt.t = "ref"
    /\ objs[result.inpt.id].t = "list"
    /\ Mixins[casts[3].cls].from_ = "Iterable"

\* the value that a converted value was made of
Origin(v) == IF "fmt" \in DOMAIN v THEN v.fmt[2] ELSE v

\* the items of the input that are not stripped, in the order of the input
Kept(cls, items) == SelectSeq(items, LAMBDA it : ~strip_item(cls, it.key, it.value))

\* the key under which the element of index `key` is expected
KeyOf(key, converted) ==
    IF converted /\ Truthy(settings_of(World, 3)["key_cast"])
    THEN FormatV(settings_of(World, 2)["msg"], key)
    ELSE key

OrderKept(converted) ==
    LET cls == casts[3].cls
        kept == Kept(cls, objs[result.inpt.id].items)
        out == objs[result.value.id].items
    IN  /\ Len(out) = Len(kept)
        /\ Mixins[cls].to = "Iterable" =>
               \A j \in 1..Len(kept) : Origin(out[j].value) = kept[j].value
        /\ Mixins[cls].to = "Mapping" =>
               \A j \in 1..Len(kept) :
                   \E k \in 1..Len(out) :
                       /\ out[k].key = KeyOf(kept[j].key, converted)
                       /\ Origin(out[k].value) = kept[j].value

\* C19 as stated: the i-th element of the output of a sequence to sequence
\* conversion is the conversion of the i-th input element that is not
\* stripped, and a sequence to mapping conversion stores the conversion of
\* element i under the key i.
C19_KeyIsIndex == FlatSequence => OrderKept(FALSE)

\* C19: the i-th element of the output of a sequence to sequence conversion
\* is the conversion of the i-th input element that is not stripped; a
\* sequence to mapping conversion stores the conversion of element i under
\* the key i when no key_cast is set and under key_cast(i) when one is set.
C19_InputOrder == FlatSequence => OrderKept(TRUE)

\* IterableToMapping with key_cast = MyCast(msg = 'an int') on [1, 'a']
C19_Witness ==
    /\ FlatSequence
    /\ casts[3].cls = "IterableToMapping"
    /\ Truthy(settings_of(World, 3)["key_cast"])
    /\ result.inpt = RefV(1)
    /\ Len(objs[result.value.id].items) = 2


\* the outermost call was made with the cast of flat containers on a
\* container of the type that the cast builds, every item is converted by
\* Identity, no item is stripped and no key is converted, and the call has
\* returned
OwnTypeIdentity ==
    /\ Succeeded
    /\ result.cast = 3
    /\ result.inpt.t = "ref"
    /\ \/ casts[3].cls = "IterableToIterable" /\ objs[result.inpt.id].t = "list"
       \/ casts[3].cls = "MappingToMapping" /\ objs[result.inpt.id].t = "dict"
    /\ \A m \in DOMAIN LocalOf(3) : casts[LocalOf(3)[m]].cls = "Identity"
    /\ ~Truthy(settings_of(World, 3)["key_cast"])

\* container == other_container
ContainersEqual(a, b) ==
    /\ a.t = b.t
    /\ IF a.t = "list" THEN a.items = b.items
       ELSE {a.items[j] : j \in 1..Len(a.items)} = {b.items[j] : j \in 1..Len(b.items)}

\* C20: a list converted to a list, or a dict converted to a dict, with
\* Identity as the converter of every item, gives a container that is equal
\* to the input and is not the input: it is a container that did not exist
\* before the call, and the input is as it was.
C20_EqualNotSame ==
    OwnTypeIdentity =>
        /\ result.value.t = "ref"
        /\ result.value # result.inpt
        /\ result.value.id \notin 1..Len(InitObjs)
        /\ ContainersEqual(objs[result.value.id], objs[result.inpt.id])
        /\ objs[result.inpt.id] = InitObjs[result.inpt.id]

\* MappingToMapping(to = dict, mm_to_cast = {Mm(): Identity()}) on
\* {'a': 1, 'b': 'b'}
C20_Witness ==
    /\ OwnTypeIdentity
    /\ casts[3].cls = "MappingToMapping"
    /\ result.inpt = RefV(4)
    /\ Len(objs[result.value.id].items) = 2


(***************************************************************************)
(* Frame, binding and depth of a resolution                                *)
(***************************************************************************)
\* C22: a call of cast_for leaves the global map, every cast that existed
\* before the call, its settings (values and schema) and its depth as they
\* were; what the call writes is written into the one new cast it returns.
C22_Step ==
    last'.op = "cast_for" =>
        /\ mm_to_cast' = mm_to_cast
        /\ \A c \in CastIds : casts'[c] = casts[c]
        /\ \A i \in 1..Len(confs) : confs'[i] = confs[i]
        /\ \A i \in 1..Len(metas) : metas'[i] = metas[i]
        /\ last'.err = "none" =>
               /\ Len(casts') = Len(casts) + 1
               /\ last'.new = Len(casts) + 1
               /\ casts'[last'.new].settings > Len(confs)
        /\ last'.err # "none" => casts' = casts

C22_ResolutionWritesClone == [][C22_Step]_vars

\* a registered prototype has been resolved to twice, by a cast with
\* settings of its own, and is as it was built
C22_Witness ==
    /\ Resolved
    /\ last.cast \in Built
    /\ last.self # last.cast
    /\ last.cast \in {mm_to_cast[m] : m \in DOMAIN mm_to_cast}
    /\ Cardinality({c \in Clones : casts[c].cls = casts[last.cast].cls}) >= 2
    /\ casts[last.cast]._depth = 0


(***************************************************************************)
(* Further properties of the conversion machine                            *)
(***************************************************************************)
\* the casts that cast_for_item has returned for the items of call j are
\* new ones, and no two items have the same
FreshIn(j) ==
    LET used == stack[j].used
    IN  /\ \A a \in 1..Len(used) : used[a] \notin Built
        /\ \A a, b \in 1..Len(used) : a < b => used[a] # used[b]

\* C23: the cast that converts an item is an instance of its own: it is
\* none of the casts built by a constructor call (the casts of the global
\* map, of mm_to_cast, of key_to_cast, value_cast or element_cast), and it
\* is not the cast that converts another item of the same call.
C23_FreshPerItem == \A j \in 1..Len(stack) : FreshIn(j)


Phase(event) == IF event = "read" THEN 1 ELSE IF event = "convert" THEN 2 ELSE 3

\* C24: a call decomposes, then converts, then recomposes: it reads no item
\* from its input once it has begun to convert an item, and converts no
\* item once it has begun to take converted items into its output.
C24_PhasesInOrder ==
    \A j \in 1..Len(stack) :
        \A a, b \in 1..Len(stack[j].log) :
            a < b => Phase(stack[j].log[a]) <= Phase(stack[j].log[b])


\* the item that the innermost call reads next is one that strip_item drops
StripsNext ==
    /\ Running
    /\ stack[Len(stack)].i < Len(stack[Len(stack)].items)
    /\ LET f == stack[Len(stack)]
       IN  strip_item(casts[f.cast].cls, f.items[f.i + 1].key, f.items[f.i + 1].value)

\* the step that drops an item does nothing but pass it
C26_Step ==
    StripsNext =>
        /\ casts' = casts
        /\ confs' = confs
        /\ objs' = objs
        /\ result' = result
        /\ Len(stack') = Len(stack)
        /\ stack' = [stack EXCEPT ![Len(stack)].i = @ + 1,
                                  ![Len(stack)].log = stack'[Len(stack)].log]

\* the places in the input of the elements that call j has taken into its
\* output, and those of the items passed so far that strip_item keeps
Taken(j) == {stack[j].out[a].src : a \in 1..Len(stack[j].out)}

KeptSoFar(j) ==
    {k \in 1..stack[j].i :
        ~strip_item(casts[stack[j].cast].cls, stack[j].items[k].key, stack[j].items[k].value)}

\* C26: an item for which strip_item is true is passed without a cast being
\* looked for, without a call of key_cast or of a cast on its value, and is
\* not in the output; each of the other items that a call has passed is in
\* its output.
C26_StrippedFirst ==
    /\ [](\A j \in 1..Len(stack) : Taken(j) = KeptSoFar(j))
    /\ [][C26_Step]_vars

\* a cast that strips None has converted [None, 1] to a list of one element
\* and has made one cast, for the item 1
C26_Witness ==
    /\ Succeeded
    /\ result.cast = 3
    /\ casts[3].cls = "StripNone"
    /\ result.inpt = RefV(5)
    /\ Len(objs[result.value.id].items) = 1
    /\ Len(casts) = Len(ConvInputs) + 1


\* C28: the cast that cast_for(mm) returns has mm.from_ as its setting
\* from_ and mm.to as its setting to, whatever the settings from_ and to of
\* the resolving cast are.
C28_BoundToMm ==
    Resolved =>
        /\ settings_of(World, last.new)["from_"] = TypeV(last.mm.from_)
        /\ settings_of(World, last.new)["to"] = TypeV(last.mm.to)


\* the number of resolutions between a cast and the cast built by a
\* constructor call that its chain of resolutions starts from
RECURSIVE Level(_)
Level(c) == IF casts[c].by = 0 THEN 0 ELSE Level(casts[c].by) + 1

\* C29: the depth of the cast that cast_for returns is the depth of the
\* resolving cast plus one, so that the depth of every cast is the number
\* of nested resolutions that lead to it.
C29_DepthIsLevel ==
    /\ Resolved => casts[last.new]._depth = casts[last.self]._depth + 1
    /\ \A c \in CastIds : casts[c]._depth = Level(c)


\* the casts on which a call is in progress
InCall == {stack[j].cast : j \in 1..Len(stack)}

\* C30: the operation context of a cast is None whenever no call on the
\* cast is in progress, also after a call that has ended with an exception.
C30_ContextReset == \A c \in CastIds \ InCall : casts[c]._context = None


(***************************************************************************)
(* The metamorphosis of an item and the schema improvised from a value     *)
(***************************************************************************)
\* what get_item_from and get_item_to return: NotImplemented, or the type
\* known a priori for the key
Declared == {NotImplemented} \cup {Exact(c) : c \in {"int", "str", "Dumb", "object"}}

\* Cast._improvise_schema(inpt, MappingNode) and (inpt, IterableNode): the
\* keys, or the indices, of inpt with the types of their values
improvise_schema(os, node, inpt) ==
    LET items == os[inpt.id].items
    IN  IF node = "MappingNode"
        THEN [k \in {items[j].key : j \in 1..Len(items)} |->
                 TypeOf(os, (CHOOSE it \in {items[j] : j \in 1..Len(items)} : it.key = k).value)]
        ELSE [k \in {IntV(j - 1) : j \in 1..Len(items)} |-> TypeOf(os, items[k.i + 1].value)]

\* self.get_item_mm(key, value) of a cast whose get_item_from and
\* get_item_to return from_ and to for the key
GetItemMm(from_, to, value) ==
    /\ last' = [op |-> "get_item_mm", from_ |-> from_, to |-> to, value |-> value,
                mm |-> item_mm(from_, to, value), err |-> "none"]
    /\ UNCHANGED <<confs, metas, mm_to_cast, casts, steps, others>>

ImproviseSchema(node, inpt) ==
    /\ objs[inpt.id].t = (IF node = "MappingNode" THEN "dict" ELSE "list")
    /\ last' = [op |-> "improvise_schema", node |-> node, inpt |-> inpt,
                schema |-> improvise_schema(objs, node, inpt), err |-> "none"]
    /\ UNCHANGED <<confs, metas, mm_to_cast, casts, steps, others>>

NextMm ==
    \/ \E from_ \in Declared, to \in Declared, value \in Types : GetItemMm(from_, to, value)
    \/ \E node \in {"MappingNode", "IterableNode"}, i \in 1..Len(InitObjs) :
           ImproviseSchema(node, RefV(i))

SpecMm == InitConvert /\ [][NextMm]_vars

\* C25: the metamorphosis of an item has as its source the type known a
\* priori for the key, or the type of the value when none is known, and as
\* its destination the type known for the key, or every subclass of object
\* when none is known; the schema improvised from a mapping has the keys of
\* the mapping with the types of their values, and the one improvised from
\* a sequence its indices with the types of its elements.
C25_ItemMm ==
    /\ last.op = "get_item_mm" =>
           /\ last.mm.from_ = (IF last.from_ = NotImplemented THEN Exact(last.value)
                               ELSE last.from_)
           /\ last.mm.to = (IF last.to = NotImplemented THEN SubclassOf("object")
                            ELSE last.to)
    /\ last.op = "improvise_schema" =>
           LET items == objs[last.inpt.id].items
           IN  /\ Cardinality(DOMAIN last.schema) = Len(items)
               /\ \A j \in 1..Len(items) :
                      LET k == IF last.node = "MappingNode" THEN items[j].key ELSE IntV(j - 1)
                      IN  k \in DOMAIN last.schema
                              /\ last.schema[k] = TypeOf(objs, items[j].value)

\* a source type is known for the key and differs from the type of the
\* value, and no destination type is known
C25_Witness ==
    /\ last.op = "get_item_mm"
    /\ last.from_ = Exact("object")
    /\ last.value = "int"
    /\ last.to = NotImplemented
    /\ last.mm = Mm(Exact("object"), SubclassOf("object"))


(***************************************************************************)
(* Getters and setters of the attributes of an object (containercast       *)
(* FromObjectMixin and ToObjectMixin).  An accessor is modelled by its     *)
(* name; attr_class is what get_from or get_to returns for the attribute,  *)
(* None when no class is known for it.                                     *)
(***************************************************************************)
\* utils.closest_parent(klass, other_classes): the classes among
\* other_classes that klass is a subclass of and that have no subclass
\* among those; one of them is returned
closest_parent(klass, other_classes) ==
    {p \in other_classes :
        /\ IsSubclass(klass, p)
        /\ \A q \in other_classes : IsSubclass(klass, q) /\ IsSubclass(q, p) => q = p}

ClassOr(attr_class, default) == IF attr_class = None THEN default ELSE attr_class.type

\* a getter taken from class_to_getter whenever the class of the attribute
\* has an entry of its own there
get_getter_class_first(attrname_to_getter, class_to_getter, name, attr_class) ==
    IF name \in DOMAIN attrname_to_getter
       /\ closest_parent(ClassOr(attr_class, "object"), DOMAIN class_to_getter) = {"object"}
    THEN {attrname_to_getter[name]}
    ELSE {class_to_getter[parent] :
              parent \in closest_parent(ClassOr(attr_class, "object"), DOMAIN class_to_getter)}

\* FromObjectMixin.get_getter: the getters that the call can return
get_getter(attrname_to_getter, class_to_getter, name, attr_class) ==
    IF name \in DOMAIN attrname_to_getter THEN {attrname_to_getter[name]}
    ELSE {class_to_getter[parent] :
              parent \in closest_parent(ClassOr(attr_class, "object"), DOMAIN class_to_getter)}

\* ToObjectMixin.get_setter: the setters that the call can return
get_setter(attrname_to_setter, class_to_setter, name, attr_class) ==
    IF name \in DOMAIN attrname_to_setter THEN {attrname_to_setter[name]}
    ELSE {class_to_setter[parent] :
              parent \in closest_parent(ClassOr(attr_class, "object"), DOMAIN class_to_setter)}

AttrNames == {"a", "virtual_a"}

\* attrname_to_getter / attrname_to_setter: {} or one accessor of the test
NameMaps == {EmptyDict} \cup {n :> "my_virtual_attr" : n \in AttrNames}

\* class_to_getter / class_to_setter: the entry of object, getattr or
\* setattr, and accessors for Dumb and for int
ClassMaps ==
    {("object" :> "plain") @@ [c \in S |-> c] : S \in SUBSET {"Dumb", "int"}}

AttrClasses == {None} \cup {Exact(c) : c \in {"object", "Dumb", "int", "DumbInt", "str"}}

GetGetter(by_name, by_class, name, attr_class) ==
    /\ \E getter \in get_getter(by_name, by_class, name, attr_class) :
           last' = [op |-> "get_getter", by_name |-> by_name, by_class |-> by_class,
                    name |-> name, attr_class |-> attr_class, accessor |-> getter,
                    err |-> "none"]
    /\ UNCHANGED <<confs, metas, mm_to_cast, casts, steps, others>>

GetSetter(by_name, by_class, name, attr_class) ==
    /\ \E setter \in get_setter(by_name, by_class, name, attr_class) :
           last' = [op |-> "get_setter", by_name |-> by_name, by_class |-> by_class,
                    name |-> name, attr_class |-> attr_class, accessor |-> setter,
                    err |-> "none"]
    /\ UNCHANGED <<confs, metas, mm_to_cast, casts, steps, others>>

NextAccessors ==
    \/ \E by_name \in NameMaps, by_class \in ClassMaps, name \in AttrNames,
          attr_class \in AttrClasses : GetGetter(by_name, by_class, name, attr_class)
    \/ \E by_name \in NameMaps, by_class \in ClassMaps, name \in AttrNames,
          attr_class \in AttrClasses : GetSetter(by_name, by_class, name, attr_class)

SpecAccessors == InitClasses /\ [][NextAccessors]_vars

Accessed == last.op \in {"get_getter", "get_setter"}

\* the classes with an accessor that the class of the attribute descends from
ParentsOf(l) ==
    {p \in DOMAIN l.by_class : IsSubclass(ClassOr(l.attr_class, "object"), p)}

\* C27: the getter or setter of an attribute is the one registered for its
\* name when there is one, whatever is registered for its class; otherwise
\* it is the one registered for a class that the class of the attribute
\* descends from, with no closer such class registered, and the one of
\* object (plain attribute access) when object is the only such class.
C27_NameBeforeClass ==
    Accessed =>
        /\ last.name \in DOMAIN last.by_name => last.accessor = last.by_name[last.name]
        /\ last.name \notin DOMAIN last.by_name =>
               /\ \E p \in ParentsOf(last) :
                      /\ last.accessor = last.by_class[p]
                      /\ \A q \in ParentsOf(last) : IsSubclass(q, p) => q = p
               /\ ParentsOf(last) = {"object"} => last.accessor = "plain"

\* a getter is registered for the name of the attribute and another one for
\* the class of the attribute: the one of the name is used
C27_Witness ==
    /\ last.op = "get_getter"
    /\ last.name \in DOMAIN last.by_name
    /\ last.attr_class = Exact("int")
    /\ "int" \in DOMAIN last.by_class
    /\ last.accessor = "my_virtual_attr"

(***************************************************************************)
(* Objects (daccasts.WrappedObject, WrappedContainer, FromObject and       *)
(* ToObject).  A value is an atom, ListV(elems), DictV(f) or an instance   *)
(* ObjectV(klass, attrs) with its attributes; values are nested, not       *)
(* shared.  A wrapped type, as the value of from_ or to, is a type that     *)
(* carries its wrap: for an object klass, extra_schema, include and        *)
(* exclude, for a container klass and value_type.                          *)
(***************************************************************************)
ListV(elems) == [t |-> "list", elems |-> elems]

ObjectV(klass, attrs) == [t |-> klass, attrs |-> attrs]

\* class Author: __init__(self, name, books); class Book: __init__(self, title)
InitParams ==
    ("Author" :> {StrV("name"), StrV("books")}) @@ ("Book" :> {StrV("title")})

\* a subclass of WrappedObject, and a subclass of WrappedContainer
WrappedObject(klass, extra_schema, include, exclude) ==
    [t |-> "type", ts |-> Exact(klass),
     wrap |-> [base |-> "WrappedObject", klass |-> klass, extra_schema |-> extra_schema,
               include |-> include, exclude |-> exclude]]

WrappedContainer(klass, value_type) ==
    [t |-> "type", ts |-> Exact(klass),
     wrap |-> [base |-> "WrappedContainer", klass |-> klass, value_type |-> value_type]]

IsWrapped(type, base) == type.t = "type" /\ "wrap" \in DOMAIN type /\ type.wrap.base = base

\* the wraps of the records: Book with {'title': str}, the list of Book,
\* and Author with {'name': str, 'books': <list of Book>} or
\* {'name': str, 'books': list}
BookWrap == WrappedObject("Book", StrV("title") :> TypeV(Exact("str")), {}, {})

ListOfBook == WrappedContainer("list", BookWrap)

CompleteAuthorWrap ==
    WrappedObject("Author",
                  (StrV("name") :> TypeV(Exact("str"))) @@ (StrV("books") :> ListOfBook),
                  {}, {})

SimpleAuthorWrap ==
    WrappedObject("Author",
                  (StrV("name") :> TypeV(Exact("str")))
                      @@ (StrV("books") :> TypeV(Exact("list"))),
                  {}, {})

\* WrappedObject.get_schema: default_schema() is {}; extra_schema is put
\* over it, the names of include are added and the others removed, the names
\* of exclude are removed
get_schema(cls) ==
    LET schema == DictUpdate(EmptyDict, cls.wrap.extra_schema)
        included == IF cls.wrap.include # {}
                    THEN [k \in cls.wrap.include |->
                             IF k \in DOMAIN schema THEN schema[k] ELSE NotImplemented]
                    ELSE schema
    IN  [k \in DOMAIN included \ cls.wrap.exclude |-> included[k]]

\* type.get_class(key), for the from_ or the to of a cast:
\* WrappedObject.get_class looks the key up in the schema,
\* WrappedContainer.get_class returns value_type; a type that is not
\* wrapped is wrapped as the mixin says (from_wrapped, to_wrapped), in a
\* WrappedObject without schema or in a WrappedContainer without value_type
get_class(type, wrapped, key) ==
    IF IsWrapped(type, "WrappedObject")
    THEN IF key \in DOMAIN get_schema(type)
         THEN [err |-> "none", class |-> get_schema(type)[key]]
         ELSE [err |-> "KeyError", class |-> NotImplemented]
    ELSE IF IsWrapped(type, "WrappedContainer")
    THEN [err |-> "none", class |-> type.wrap.value_type]
    ELSE IF wrapped = "WrappedObject" THEN [err |-> "KeyError", class |-> NotImplemented]
    ELSE [err |-> "none", class |-> NotImplemented]

\* WrappedObject.getattr: getattr(instance, name)
Wrapped_getattr(instance, name) ==
    IF "attrs" \in DOMAIN instance /\ name \in DOMAIN instance.attrs
    THEN [err |-> "none", value |-> instance.attrs[name]]
    ELSE [err |-> "AttributeError", value |-> None]

\* WrappedObject.new: (cls.factory or cls.klass)(**kwargs), the __init__ of
\* the class taking each of its parameters by name
Wrapped_new(cls, kwargs) ==
    IF cls.wrap.klass \in DOMAIN InitParams /\ DOMAIN kwargs = InitParams[cls.wrap.klass]
    THEN [err |-> "none", value |-> ObjectV(cls.wrap.klass, kwargs)]
    ELSE [err |-> "TypeError", value |-> None]

\* the mixins of the casts of objects, with those of the casts of containers
ObjectMixins ==
    Mixins @@ ("ObjectToMapping" :> [from_ |-> "Object", to |-> "Mapping"])
           @@ ("MappingToObject" :> [from_ |-> "Mapping", to |-> "Object"])

\* from_wrapped and to_wrapped of the mixins
WrappedOf(side) == IF side = "Object" THEN "WrappedObject" ELSE "WrappedContainer"

\* the keys of a dictionary in the order in which it is iterated
KeysOf(f) == CHOOSE keys \in Perms(DOMAIN f) : TRUE

\* a read item, or the exception that reading it raises
Item(key, r) == [key |-> key, value |-> r.value, err |-> r.err]

\* FromObject.iter_input, a generator: for each name of the schema of
\* from_, name and self.from_.getattr(inpt, name);
\* FromMapping.iter_input: inpt.iteritems(); FromIterable.iter_input:
\* enumerate(inpt)
object_iter_input(side, from_, inpt) ==
    IF side = "Object"
    THEN LET names == IF IsWrapped(from_, "WrappedObject") THEN get_schema(from_)
                      ELSE EmptyDict
         IN  [err |-> "none",
              items |-> [i \in 1..Cardinality(DOMAIN names) |->
                            Item(KeysOf(names)[i], Wrapped_getattr(inpt, KeysOf(names)[i]))]]
    ELSE IF side = "Mapping"
    THEN IF inpt.t = "dict"
         THEN [err |-> "none",
               items |-> [i \in 1..Cardinality(DOMAIN inpt.d) |->
                             Item(KeysOf(inpt.d)[i],
                                  [err |-> "none", value |-> inpt.d[KeysOf(inpt.d)[i]]])]]
         ELSE [err |-> "AttributeError", items |-> <<>>]
    ELSE IF inpt.t = "list"
    THEN [err |-> "none",
          items |-> [i \in 1..Len(inpt.elems) |->
                        Item(IntV(i - 1), [err |-> "none", value |-> inpt.elems[i]])]]
    ELSE IF inpt.t = "dict"
    THEN [err |-> "none",
          items |-> [i \in 1..Cardinality(DOMAIN inpt.d) |->
                        Item(IntV(i - 1), [err |-> "none", value |-> KeysOf(inpt.d)[i]])]]
    ELSE IF inpt.t = "str"
    THEN [err |-> "none", items |-> <<Item(IntV(0), [err |-> "none", value |-> inpt])>>]
    ELSE [err |-> "TypeError", items |-> <<>>]

\* what self.to(...) calls: the new of a WrappedObject, the class of a
\* WrappedContainer, the class itself, or None
Target(to) ==
    IF to.t # "type" THEN "None"
    ELSE IF IsWrapped(to, "WrappedObject") THEN "new"
    ELSE IF IsWrapped(to, "WrappedContainer") THEN to.wrap.klass
    ELSE to.ts.type

\* the exception of dict(...) or list(...) when it takes the element that
\* build_output makes of a converted item: ToMapping passes the pair,
\* ToIterable the value, ToObject fills dict(items_iter)
accept(side, target, key, value) ==
    IF side = "Iterable" /\ target = "dict"
    THEN IF value.t = "tuple" THEN "none"
         ELSE IF value.t = "list"
         THEN IF Len(value.elems) # 2 THEN "ValueError"
              ELSE IF value.elems[1].t \in {"list", "dict"} THEN "TypeError" ELSE "none"
         ELSE IF value.t = "dict"
         THEN IF Cardinality(DOMAIN value.d) # 2 THEN "ValueError" ELSE "none"
         ELSE IF value.t = "str" THEN "ValueError"
         ELSE "TypeError"
    ELSE IF (side # "Iterable" /\ target = "dict") \/ side = "Object"
    THEN IF key.t \in {"list", "dict"} THEN "TypeError" ELSE "none"
    ELSE "none"

\* dict(pairs), the last value of a key being kept
DictOf(out) ==
    [k \in {out[j].key : j \in 1..Len(out)} |->
        out[CHOOSE j \in 1..Len(out) :
                /\ out[j].key = k
                /\ \A i \in (j + 1)..Len(out) : out[i].key # k].value]

\* the pair that dict(...) reads from an element
PairOf(value) ==
    IF value.t = "tuple" THEN KeyValue(value.items[1], value.items[2])
    ELSE IF value.t = "list" THEN KeyValue(value.elems[1], value.elems[2])
    ELSE KeyValue(KeysOf(value.d)[1], KeysOf(value.d)[2])

\* ToMapping.build_output: self.to(items_iter); ToIterable.build_output:
\* self.to((value for key, value in items_iter)); ToObject.build_output:
\* self.to(**dict(items_iter)), out being the converted items
object_build_output(side, to, out) ==
    LET target == Target(to)
    IN  IF side = "Object"
        THEN IF \E j \in 1..Len(out) : out[j].key.t # "str"
             THEN [err |-> "TypeError", value |-> None]
             ELSE IF target = "new" THEN Wrapped_new(to, DictOf(out))
             ELSE IF target = "dict" THEN [err |-> "none", value |-> DictV(DictOf(out))]
             ELSE IF target = "list" /\ out = <<>> THEN [err |-> "none", value |-> ListV(<<>>)]
             ELSE [err |-> "TypeError", value |-> None]
        ELSE IF target = "new" THEN Wrapped_new(to, EmptyDict)
        ELSE IF target = "dict"
        THEN [err |-> "none",
              value |-> DictV(DictOf(IF side = "Mapping" THEN out
                                     ELSE [j \in 1..Len(out) |-> PairOf(out[j].value)]))]
        ELSE IF target = "list"
        THEN [err |-> "none",
              value |-> ListV([j \in 1..Len(out) |->
                                  IF side = "Mapping" THEN TupleV(out[j].key, out[j].value)
                                  ELSE out[j].value])]
        ELSE [err |-> "TypeError", value |-> None]

\* self.to(...) reads the iterator that build_output passes: dict and list
\* do, dict(items_iter) of ToObject does, the new of a WrappedObject and
\* what cannot be called do not
Reads(side, to) == side = "Object" \/ Target(to) \in {"dict", "list"}

\* CastItems.cast_for_item, for the metamorphosis mm of the item
object_cast_for_item(w, reg, self, key, mm, names) ==
    LET key_to_cast == settings_of(w, self)["key_to_cast"].d
        value_cast == settings_of(w, self)["value_cast"]
    IN  IF key \in DOMAIN key_to_cast
        THEN build_customized(w, self, key_to_cast[key], mm, names)
        ELSE IF Truthy(value_cast) THEN build_customized(w, self, value_cast.id, mm, names)
        ELSE cast_for(w, reg, self, mm, names)

\* the side of a metamorphosis that get_item_from or get_item_to names
SideOf(class) == IF class = NotImplemented THEN NotImplemented ELSE class.ts

\* a call in progress: the cast, the items of iter_input, the number of
\* items read, the converted items that self.to has taken, and the key
\* under which the call around it takes the output
ObjectFrame(c, items) == [cast |-> c, items |-> items, i |-> 0, out |-> <<>>, key |-> None]

NoObjectFrame == ObjectFrame(0, <<>>)

\* cast(inpt) behind the wrapper of CastType.  Identity returns its input
\* and MyCast formats it; a cast of objects or containers calls iter_input,
\* makes the generator of iter_output, and build_output calls self.to: a
\* class that reads its argument starts to read the items, and the call
\* stays in progress; the new of a WrappedObject does not read them
object_call(w, depth, c, inpt) ==
    LET cls == w.casts[c].cls
        started == [w EXCEPT !.casts[c]._context = Context(inpt)]
        ended == [w EXCEPT !.casts[c]._context = None]
    IN  IF cls = "Identity" THEN [Returned(ended, inpt) EXCEPT !.frame = NoObjectFrame]
        ELSE IF cls = "MyCast"
        THEN [Returned(ended, FormatV(settings_of(w, c)["msg"], inpt))
                 EXCEPT !.frame = NoObjectFrame]
        ELSE IF cls \notin DOMAIN ObjectMixins
        THEN [Raised(started, "AttributeError") EXCEPT !.frame = NoObjectFrame]
        ELSE IF depth >= MaxDepth
        THEN [Raised(started, "RuntimeError") EXCEPT !.frame = NoObjectFrame]
        ELSE One({
          IF input.err # "none"
          THEN [Raised(started, input.err) EXCEPT !.frame = NoObjectFrame]
          ELSE IF ~Reads(ObjectMixins[cls].to, settings_of(w, c)["to"])
          THEN One({IF b.err # "none"
                    THEN [Raised(started, b.err) EXCEPT !.frame = NoObjectFrame]
                    ELSE [Returned(ended, b.value) EXCEPT !.frame = NoObjectFrame] :
                        b \in {object_build_output(ObjectMixins[cls].to,
                                                   settings_of(w, c)["to"], <<>>)}})
          ELSE [kind |-> "called", w |-> started, value |-> None, err |-> "none",
                frame |-> ObjectFrame(c, input.items)] :
              input \in {object_iter_input(ObjectMixins[cls].from_, settings_of(w, c)["from_"],
                                           inpt)}})

\* an exception leaves every call in progress: nothing handles it
ObjectRaise(w, err) == [w |-> w, stack |-> <<>>, err |-> err, value |-> None]

\* self.to takes the converted item (key, value) into the output of the
\* innermost call of stk
object_take(w, stk, key, value) ==
    LET top == Len(stk)
        self == stk[top].cast
        err == accept(ObjectMixins[w.casts[self].cls].to, Target(settings_of(w, self)["to"]),
                      key, value)
    IN  IF err # "none" THEN ObjectRaise(w, err)
        ELSE [w |-> w, err |-> "none", value |-> None,
              stack |-> [stk EXCEPT ![top].i = @ + 1,
                                    ![top].out = Append(@, KeyValue(key, value))]]

\* one turn of the loop of CastItems.iter_output in the innermost call: the
\* next item is read, and stripped, or converted by the cast of
\* cast_for_item, its key by key_cast
object_next_item(w, reg, stk, names) ==
    LET top == Len(stk)
        self == stk[top].cast
        it == stk[top].items[stk[top].i + 1]
        mixins == ObjectMixins[w.casts[self].cls]
        key_cast == key_cast_of(w, self)
    IN  IF it.err # "none" THEN ObjectRaise(w, it.err)
        ELSE IF strip_item(w.casts[self].cls, it.key, it.value)
        THEN [w |-> w, err |-> "none", value |-> None,
              stack |-> [stk EXCEPT ![top].i = @ + 1]]
        ELSE One({
          IF from_.err # "none" THEN ObjectRaise(w, from_.err)
          ELSE One({
            IF to.err # "none" THEN ObjectRaise(w, to.err)
            ELSE One({
              IF r.err # "none" THEN ObjectRaise(r.w, r.err)
              ELSE One({
                IF k.kind # "returned"
                THEN ObjectRaise(k.w, IF k.kind = "raised" THEN k.err ELSE "RuntimeError")
                ELSE One({
                  IF v.kind = "raised" THEN ObjectRaise(v.w, v.err)
                  ELSE IF v.kind = "called"
                  THEN [w |-> v.w, err |-> "none", value |-> None,
                        stack |-> Append(stk, [v.frame EXCEPT !.key = k.value])]
                  ELSE object_take(v.w, stk, k.value, v.value) :
                      v \in {object_call(k.w, top, r.new, it.value)}}) :
                    k \in {IF Truthy(key_cast) THEN object_call(r.w, top, key_cast.id, it.key)
                           ELSE [Returned(r.w, it.key) EXCEPT !.frame = NoObjectFrame]}}) :
                  r \in {object_cast_for_item(w, reg, self, it.key,
                                              item_mm(SideOf(from_.class), SideOf(to.class),
                                                      it.value.t),
                                              names)}}) :
                to \in {get_class(settings_of(w, self)["to"], WrappedOf(mixins.to), it.key)}}) :
              from_ \in {get_class(settings_of(w, self)["from_"], WrappedOf(mixins.from_),
                                   it.key)}})

\* the generator of iter_output is exhausted: self.to returns what it has
\* built of the items, and the innermost call returns it, as the value of
\* the outermost call or as the converted value of an item of the call
\* around it
object_return(w, stk) ==
    LET top == Len(stk)
        f == stk[top]
        rest == SubSeq(stk, 1, top - 1)
    IN  One({
          IF b.err # "none" THEN ObjectRaise(w, b.err)
          ELSE One({
            IF rest = <<>> THEN [w |-> w1, stack |-> rest, err |-> "none", value |-> b.value]
            ELSE object_take(w1, rest, f.key, b.value) :
                w1 \in {[w EXCEPT !.casts[f.cast]._context = None]}}) :
              b \in {object_build_output(ObjectMixins[w.casts[f.cast].cls].to,
                                         settings_of(w, f.cast)["to"], f.out)}})

(***************************************************************************)
(* The round trip machine: the casts of a serializer and of a deserializer *)
(* are built, a record is converted to mappings by an ObjectToMapping, and *)
(* the mappings are converted back by the MappingToObject of the same      *)
(* wrap; or the mappings of a record are written down and converted.       *)
(* `result` keeps the record (inpt) and the value of the last conversion.  *)
(***************************************************************************)
\* the longest list of books of an author
MaxBooks == 2

MBook == Mm(SubclassOf("Book"), SubclassOf("object"))

MDictToBook == Mm(SubclassOf("dict"), SubclassOf("Book"))

MListToList == Mm(SubclassOf("list"), SubclassOf("list"))

AuthorWraps == {CompleteAuthorWrap, SimpleAuthorWrap}

\* the constructor calls, in the order in which they are made: Identity(),
\* IterableToIterable(to = list),
\* ObjectToMapping(from_ = <Book>, to = dict, mm_to_cast = {Mm(): <cast 1>}),
\* ObjectToMapping(from_ = <Author>, to = dict, mm_to_cast = {Mm(): <cast 1>,
\*     Mm(from_any = list): <cast 2>, Mm(from_any = Book): <cast 3>}),
\* MappingToObject(to = <Book>, mm_to_cast = {Mm(): <cast 1>}),
\* IterableToIterable(to = <list of Book>), and
\* MappingToObject(to = <Author>, mm_to_cast = {Mm(): <cast 1>,
\*     Mm(from_any = list, to_any = list): <cast 6>,
\*     Mm(from_any = dict, to_any = Book): <cast 5>})
TripInputs ==
    << {[cls |-> "Identity", settings |-> EmptyDict]},
       {[cls |-> "IterableToIterable", settings |-> "to" :> TypeV(Exact("list"))]},
       {[cls |-> "ObjectToMapping",
         settings |-> ("from_" :> BookWrap) @@ ("to" :> TypeV(Exact("dict")))
                          @@ ("mm_to_cast" :> DictV(MAny :> 1))]},
       {[cls |-> "ObjectToMapping",
         settings |-> ("from_" :> wrap) @@ ("to" :> TypeV(Exact("dict")))
                          @@ ("mm_to_cast" :> DictV((MAny :> 1) @@ (MList :> 2)
                                                        @@ (MBook :> 3)))] :
            wrap \in AuthorWraps},
       {[cls |-> "MappingToObject",
         settings |-> ("to" :> BookWrap) @@ ("mm_to_cast" :> DictV(MAny :> 1))]},
       {[cls |-> "IterableToIterable", settings |-> "to" :> ListOfBook]},
       {[cls |-> "MappingToObject",
         settings |-> ("to" :> wrap)
                          @@ ("mm_to_cast" :> DictV((MAny :> 1) @@ (MListToList :> 6)
                                                        @@ (MDictToBook :> 5)))] :
            wrap \in AuthorWraps} >>

\* the records: Book(title), and Author(name, books) with up to MaxBooks books
Books == {ObjectV("Book", StrV("title") :> StrV(title)) : title \in {"x", "y"}}

BookLists == UNION {[1..n -> Books] : n \in 0..MaxBooks}

Authors ==
    {ObjectV("Author", (StrV("name") :> StrV(name)) @@ (StrV("books") :> ListV(books))) :
         name \in {"a", "b"}, books \in BookLists}

\* the nested mappings of a record, as they are written down:
\* {'name': 'a', 'books': [{'title': 'x'}]}
RECURSIVE as_mapping(_)
as_mapping(value) ==
    IF value.t \in DOMAIN InitParams
    THEN DictV([name \in DOMAIN value.attrs |-> as_mapping(value.attrs[name])])
    ELSE IF value.t = "list"
    THEN ListV([j \in 1..Len(value.elems) |-> as_mapping(value.elems[j])])
    ELSE value

AllBuilt == Built = CastIds /\ Len(casts) = Len(TripInputs)

\* cast(inpt), the outermost call of the conversion `op` of `record`
Trip(op, c, inpt, record) ==
    \E r \in {object_call(World, 0, c, inpt)} :
        /\ CommitWorld(r.w)
        /\ stack' = IF r.kind = "called" THEN <<r.frame>> ELSE <<>>
        /\ result' = [NoResult EXCEPT !.started = TRUE, !.done = r.kind # "called",
                                      !.err = r.err, !.value = r.value, !.cast = c,
                                      !.inpt = record]
        /\ last' = [op |-> op, cast |-> c, err |-> r.err]

\* serializer(record)
Serialize(c, inpt) ==
    /\ AllBuilt
    /\ ~result.started
    /\ casts[c].cls = "ObjectToMapping"
    /\ inpt.t = settings_of(World, c)["from_"].wrap.klass
    /\ Trip("serialize", c, inpt, inpt)
    /\ UNCHANGED <<mm_to_cast, steps, classes, objs>>

\* deserializer(mappings), for the mappings that the serializer has returned
\* and the deserializer of the same wrap
Deserialize(c) ==
    /\ last.op = "serialize"
    /\ result.done
    /\ result.err = "none"
    /\ c \in Built
    /\ casts[c].cls = "MappingToObject"
    /\ settings_of(World, c)["to"] = settings_of(World, result.cast)["from_"]
    /\ Trip("deserialize", c, result.value, result.inpt)
    /\ UNCHANGED <<mm_to_cast, steps, classes, objs>>

\* deserializer(mappings), for the mappings of a record written down
Load(c, record) ==
    /\ AllBuilt
    /\ ~result.started
    /\ casts[c].cls = "MappingToObject"
    /\ record.t = settings_of(World, c)["to"].wrap.klass
    /\ Trip("load", c, as_mapping(record), record)
    /\ UNCHANGED <<mm_to_cast, steps, classes, objs>>

\* self.to asks the generator of iter_output for the next item
TripItem ==
    /\ stack # <<>>
    /\ stack[Len(stack)].i < Len(stack[Len(stack)].items)
    /\ \E r \in {object_next_item(World, mm_to_cast, stack, CastNameOrder)} :
           /\ CommitWorld(r.w)
           /\ stack' = r.stack
           /\ result' = [result EXCEPT !.err = r.err, !.done = r.stack = <<>>]
           /\ last' = [last EXCEPT !.err = r.err]
    /\ UNCHANGED <<mm_to_cast, steps, classes, objs>>

\* the generator of iter_output is exhausted: build_output returns
TripReturn ==
    /\ stack # <<>>
    /\ stack[Len(stack)].i = Len(stack[Len(stack)].items)
    /\ \E r \in {object_return(World, stack)} :
           /\ CommitWorld(r.w)
           /\ stack' = r.stack
           /\ result' = [result EXCEPT !.err = r.err, !.value = r.value,
                                       !.done = r.stack = <<>>]
           /\ last' = [last EXCEPT !.err = r.err]
    /\ UNCHANGED <<mm_to_cast, steps, classes, objs>>

InitTrip ==
    /\ confs = ObjectClasses.confs
    /\ metas = ObjectClasses.metas
    /\ casts = <<>>
    /\ mm_to_cast = EmptyDict
    /\ last = [op |-> "none", err |-> "none"]
    /\ steps = 0
    /\ NoOthers

NextTrip ==
    \/ \E i \in 1..Len(TripInputs) : \E inp \in TripInputs[i] : NewCast(TripInputs, inp)
    \/ \E c \in CastIds, inpt \in Authors \cup Books : Serialize(c, inpt)
    \/ \E c \in CastIds : Deserialize(c)
    \/ \E c \in CastIds, record \in Authors \cup Books : Load(c, record)
    \/ TripItem
    \/ TripReturn

SpecTrip == InitTrip /\ [][NextTrip]_vars

\* the conversion `op` has come to its end
TripDone(op) == last.op = op /\ result.done

\* C21: a record that is converted to mappings is converted, to the nested
\* mappings of its fields; and the mappings converted back by the
\* deserializer of the same wrap, or the mappings of a record written down,
\* give a record of the type of the original whose fields are equal to the
\* original's, at every level: a Book, and an Author with its list of Books.
C21_RoundTrip ==
    /\ TripDone("serialize") => result.err = "none" /\ result.value = as_mapping(result.inpt)
    /\ TripDone("deserialize") \/ TripDone("load") =>
           result.err = "none" /\ result.value = result.inpt

====
